---- MODULE Spec2Model ----
(***************************************************************************)
(* Orchestration and constraint-enforcement core of the Lumos smart home:  *)
(* plan executor and constraint engine (agents/orchestrator.py), pattern   *)
(* engine (agents/pattern_detector.py), permission handshake               *)
(* (agents/voice.py), threat de-duplication and the home-mode state        *)
(* machine with snapshot / restore (agents/orchestrator.py), over the      *)
(* simulated devices of devices/*.py.                                      *)
(***************************************************************************)
EXTENDS Integers, Sequences, FiniteSets, TLC

(***************************************************************************)
(* Bounds of the model.                                                    *)
(***************************************************************************)
MaxPlanLen == 2
MaxLearns == 2
MaxPatternIds == 3
MaxUtteranceLen == 22

(***************************************************************************)
(* Small helpers.                                                          *)
(***************************************************************************)
EmptyParams == [k \in {} |-> 0]

Min(a, b) == IF a < b THEN a ELSE b

Max(a, b) == IF a > b THEN a ELSE b

Get(f, k, default) == IF k \in DOMAIN f THEN f[k] ELSE default

Last4(s) == IF Len(s) <= 4 THEN s ELSE SubSeq(s, Len(s) - 3, Len(s))

Last5(s) == IF Len(s) <= 5 THEN s ELSE SubSeq(s, Len(s) - 4, Len(s))

SeqsUpTo(S, n) == UNION {[1..k -> S] : k \in 0..n}

(***************************************************************************)
(* Device registry (devices/registry.py).  The registered devices and      *)
(* their types are fixed for a run; priority tiers come from the           *)
(* devices.yaml configuration and are an input of the run.                 *)
(***************************************************************************)
DeviceIds ==
    {"plug_kitchen_fridge", "plug_living_tv", "light_living_main",
     "lock_front_door", "thermostat_living", "battery_main"}

device_type ==
    [d \in DeviceIds |->
        CASE d = "plug_kitchen_fridge" -> "smart_plug"
          [] d = "plug_living_tv"      -> "smart_plug"
          [] d = "light_living_main"   -> "light"
          [] d = "lock_front_door"     -> "lock"
          [] d = "thermostat_living"   -> "thermostat"
          [] d = "battery_main"        -> "battery"]

PriorityTier == {"critical", "high", "medium", "low", "optional"}

DefaultTiers ==
    [d \in DeviceIds |->
        IF d \in {"plug_kitchen_fridge", "battery_main"} THEN "critical"
        ELSE IF d \in {"lock_front_door", "thermostat_living"} THEN "high"
        ELSE IF d = "light_living_main" THEN "medium" ELSE "low"]

TierConfigs ==
    {[d \in DeviceIds |->
        CASE d = "plug_kitchen_fridge" -> "critical"
          [] d = "plug_living_tv"      -> tv
          [] d = "light_living_main"   -> "medium"
          [] d = "lock_front_door"     -> "high"
          [] d = "thermostat_living"   -> "high"
          [] d = "battery_main"        -> "critical"] : tv \in {"low", "critical"}}

ThermostatMode == {"heat", "cool", "auto", "eco", "off"}

BatteryMode == {"charge", "discharge", "auto", "backup"}

MIN_TEMP_F == 60

MAX_TEMP_F == 85

\* State of a device right after its constructor ran.
InitialDeviceState(d) ==
    CASE device_type[d] = "light" ->
            [power |-> FALSE, online |-> TRUE, properties |-> [brightness |-> 0]]
      [] device_type[d] = "smart_plug" ->
            [power |-> FALSE, online |-> TRUE, properties |-> [relay_on |-> FALSE]]
      [] device_type[d] = "lock" ->
            [power |-> TRUE, online |-> TRUE, properties |-> [locked |-> TRUE]]
      [] device_type[d] = "thermostat" ->
            [power |-> TRUE, online |-> TRUE,
             properties |-> [target_temp_f |-> 72, mode |-> "auto"]]
      [] device_type[d] = "battery" ->
            [power |-> TRUE, online |-> TRUE, properties |-> [mode |-> "auto"]]

Ok(st) == [state |-> st, success |-> TRUE, error |-> "", sent |-> TRUE]

Fail(st, err) == [state |-> st, success |-> FALSE, error |-> err, sent |-> TRUE]

LightProcessAction(st, action, parameters) ==
    CASE action = "on" ->
            Ok([st EXCEPT !.power = TRUE,
                          !.properties.brightness =
                              Max(1, Min(100, Get(parameters, "brightness", 100)))])
      [] action = "off" ->
            Ok([st EXCEPT !.power = FALSE, !.properties.brightness = 0])
      [] action = "dim" ->
            LET level == Max(0, Min(100, Get(parameters, "brightness", 50)))
            IN Ok([st EXCEPT !.power = (level > 0), !.properties.brightness = level])
      [] OTHER -> Fail(st, "Unknown action")

SmartPlugProcessAction(st, action, parameters) ==
    CASE action = "on" ->
            Ok([st EXCEPT !.power = TRUE, !.properties.relay_on = TRUE])
      [] action = "off" ->
            Ok([st EXCEPT !.power = FALSE, !.properties.relay_on = FALSE])
      [] OTHER -> Fail(st, "Unknown action")

LockProcessAction(st, action, parameters) ==
    CASE action = "lock" -> Ok([st EXCEPT !.properties.locked = TRUE])
      [] action = "unlock" -> Ok([st EXCEPT !.properties.locked = FALSE])
      [] OTHER -> Fail(st, "Unknown action")

ThermostatProcessAction(st, action, parameters) ==
    CASE action = "set_temperature" ->
            LET temp == Get(parameters, "temperature", 72)
            IN IF temp < MIN_TEMP_F \/ temp > MAX_TEMP_F
               THEN Fail(st, "Temperature out of range")
               ELSE Ok([st EXCEPT !.properties.target_temp_f = temp])
      [] action = "set_mode" ->
            LET mode == Get(parameters, "mode", "auto")
            IN IF mode \in ThermostatMode
               THEN Ok([st EXCEPT !.properties.mode = mode, !.power = (mode # "off")])
               ELSE Fail(st, "Invalid mode")
      [] action = "eco_mode" ->
            Ok([st EXCEPT !.properties.mode = "eco",
                          !.properties.target_temp_f =
                              Max(st.properties.target_temp_f - 3, MIN_TEMP_F)])
      [] OTHER -> Fail(st, "Unknown action")

BatteryProcessAction(st, action, parameters) ==
    CASE action = "set_mode" ->
            LET mode == Get(parameters, "mode", "auto")
            IN IF mode \in BatteryMode
               THEN Ok([st EXCEPT !.properties.mode = mode])
               ELSE Fail(st, "Invalid mode")
      [] action = "charge" -> Ok([st EXCEPT !.properties.mode = "charge"])
      [] action = "discharge" -> Ok([st EXCEPT !.properties.mode = "discharge"])
      [] OTHER -> Fail(st, "Unknown action")

\* BaseDevice.execute_action: an offline device refuses, otherwise the
\* device class processes the action.
DeviceExecuteAction(d, st, action, parameters) ==
    IF ~st.online THEN Fail(st, "Device is offline")
    ELSE CASE device_type[d] = "light" -> LightProcessAction(st, action, parameters)
           [] device_type[d] = "smart_plug" -> SmartPlugProcessAction(st, action, parameters)
           [] device_type[d] = "lock" -> LockProcessAction(st, action, parameters)
           [] device_type[d] = "thermostat" -> ThermostatProcessAction(st, action, parameters)
           [] device_type[d] = "battery" -> BatteryProcessAction(st, action, parameters)

\* HomeStateAgent.execute_action on the registry `devs`: an unknown id is
\* answered without reaching any device; a known device executes and one
\* device_state notification is broadcast.  The first variant leaves the
\* notification to the device.
HomeExecuteActionNoBroadcast(devs, device_id, action, parameters) ==
    IF device_id \notin DeviceIds
    THEN [devices |-> devs, success |-> FALSE, error |-> "Device not found",
          sent |-> FALSE, broadcast |-> FALSE]
    ELSE LET r == DeviceExecuteAction(device_id, devs[device_id], action, parameters)
         IN [devices |-> [devs EXCEPT ![device_id] = r.state],
             success |-> r.success, error |-> r.error, sent |-> TRUE,
             broadcast |-> FALSE]

HomeExecuteAction(devs, device_id, action, parameters) ==
    IF device_id \notin DeviceIds
    THEN [devices |-> devs, success |-> FALSE, error |-> "Device not found",
          sent |-> FALSE, broadcast |-> FALSE]
    ELSE LET r == DeviceExecuteAction(device_id, devs[device_id], action, parameters)
         IN [devices |-> [devs EXCEPT ![device_id] = r.state],
             success |-> r.success, error |-> r.error, sent |-> TRUE,
             broadcast |-> TRUE]

STORE_ERROR == "event store error"

\* home_state_agent.execute_action when the event store write that follows
\* the device's action raises: the device has acted and the exception
\* reaches the caller before the notification is broadcast.  An unknown
\* device returns before the write.
HomeExecuteActionStoreFails(devs, device_id, action, parameters) ==
    LET r == HomeExecuteAction(devs, device_id, action, parameters)
    IN IF r.sent
       THEN [r EXCEPT !.success = FALSE, !.error = STORE_ERROR, !.broadcast = FALSE]
       ELSE r

\* DeviceRegistry.get_critical_device_ids for a tier configuration.
get_critical_device_ids(tiers) == {d \in DeviceIds : tiers[d] = "critical"}

(***************************************************************************)
(* Texts.  A text is a sequence of characters, so that the whole-word      *)
(* keyword search of the constraint engine is computed on the characters.  *)
(***************************************************************************)
T_NEVER_UNLOCK == <<"N","E","V","E","R"," ","u","n","l","o","c","k">>

T_never_off == <<"n","e","v","e","r"," ","o","f","f">>

T_whenever_dim == <<"w","h","e","n","e","v","e","r"," ","d","i","m">>

T_movie_on == <<"m","o","v","i","e"," ","o","n">>

T_meeting_light == <<"m","e","e","t"," ","o","n">>

T_SEPARATOR == <<" ","|"," ">>

Lower(c) ==
    CASE c = "A" -> "a" [] c = "B" -> "b" [] c = "C" -> "c" [] c = "D" -> "d"
      [] c = "E" -> "e" [] c = "F" -> "f" [] c = "G" -> "g" [] c = "H" -> "h"
      [] c = "I" -> "i" [] c = "J" -> "j" [] c = "K" -> "k" [] c = "L" -> "l"
      [] c = "M" -> "m" [] c = "N" -> "n" [] c = "O" -> "o" [] c = "P" -> "p"
      [] c = "Q" -> "q" [] c = "R" -> "r" [] c = "S" -> "s" [] c = "T" -> "t"
      [] c = "U" -> "u" [] c = "V" -> "v" [] c = "W" -> "w" [] c = "X" -> "x"
      [] c = "Y" -> "y" [] c = "Z" -> "z"
      [] OTHER -> c

WordChars ==
    {"a","b","c","d","e","f","g","h","i","j","k","l","m","n","o","p","q","r",
     "s","t","u","v","w","x","y","z","_","0","1","2","3","4","5","6","7","8","9"}

IsWordChar(text, i) == i >= 1 /\ i <= Len(text) /\ Lower(text[i]) \in WordChars

\* \b between positions i-1 and i of text.
WordBoundary(text, i) == IsWordChar(text, i - 1) # IsWordChar(text, i)

ProhibitionKeywords ==
    {<<"n","e","v","e","r">>, <<"d","o","n","'","t">>, <<"d","o"," ","n","o","t">>,
     <<"p","r","o","h","i","b","i","t">>, <<"b","l","o","c","k">>,
     <<"p","r","e","v","e","n","t">>, <<"f","o","r","b","i","d">>}

MatchesAt(text, i, kw) ==
    /\ i + Len(kw) - 1 <= Len(text)
    /\ \A j \in 1..Len(kw) : Lower(text[i + j - 1]) = kw[j]
    /\ WordBoundary(text, i)
    /\ WordBoundary(text, i + Len(kw))

\* _PROHIBITION_RE.search(text)
PROHIBITION_RE_search(text) ==
    \E i \in 1..Len(text) : \E kw \in ProhibitionKeywords : MatchesAt(text, i, kw)

(***************************************************************************)
(* Patterns (models/pattern.py) and the pattern queries of the pattern     *)
(* engine.  A pattern set is a function from pattern ids to patterns, as   *)
(* PatternDetectorAgent._detected_patterns.                                *)
(***************************************************************************)
PatternAction(d, a, params) == [device_id |-> d, action |-> a, parameters |-> params]

NoPatterns == [p \in {} |-> 0]

get_global_constraints_any_trigger(pats) ==
    {p \in DOMAIN pats : pats[p].approved}

get_global_constraints(pats) ==
    {p \in DOMAIN pats : pats[p].approved /\ pats[p].trigger_type = "global"}

get_matching_patterns_unapproved_too(pats, trigger_type, trigger_value) ==
    {p \in DOMAIN pats : /\ pats[p].trigger_type = trigger_type
                         /\ pats[p].trigger_value = trigger_value}

get_matching_patterns(pats, trigger_type, trigger_value) ==
    {p \in DOMAIN pats : /\ pats[p].approved
                         /\ pats[p].trigger_type = trigger_type
                         /\ pats[p].trigger_value = trigger_value}

_find_matching_routine_pattern(pats, trigger_type, trigger_value) ==
    {p \in DOMAIN pats : /\ pats[p].pattern_type = "routine"
                         /\ pats[p].trigger_type = trigger_type
                         /\ pats[p].trigger_value = trigger_value}

_find_matching_user_pattern(pats, trigger_type, trigger_value) ==
    {p \in DOMAIN pats : /\ pats[p].pattern_type = "user_defined"
                         /\ pats[p].trigger_type = trigger_type
                         /\ pats[p].trigger_value = trigger_value}

(***************************************************************************)
(* Constraint engine (agents/orchestrator.py).                             *)
(***************************************************************************)
_PROTECTED_DEVICE_IDS == {"plug_kitchen_fridge"}

\* _is_prohibition_pattern: the keyword search runs over the description
\* and the utterance trail joined by a space.  The first variant looks at
\* the description only.
_is_prohibition_description_only(pattern) ==
    PROHIBITION_RE_search(pattern.description)

_is_prohibition_pattern(pattern) ==
    PROHIBITION_RE_search(pattern.description \o <<" ">> \o pattern.source_utterance)

SeqRange(s) == {s[i] : i \in 1..Len(s)}

_get_blocked_actions_first_only(pats) ==
    LET prohibitions == {p \in get_global_constraints(pats) :
                            _is_prohibition_pattern(pats[p])}
        listed == {pats[p].action_sequence[1] : p \in prohibitions}
    IN [d \in {a.device_id : a \in listed} |->
            {a.action : a \in {b \in listed : b.device_id = d}}]

_get_blocked_actions_from_patterns(pats) ==
    LET prohibitions == {p \in get_global_constraints(pats) :
                            _is_prohibition_pattern(pats[p])}
        listed == UNION {SeqRange(pats[p].action_sequence) : p \in prohibitions}
    IN [d \in {a.device_id : a \in listed} |->
            {a.action : a \in {b \in listed : b.device_id = d}}]

_is_action_blocked(device_id, action_name, pattern_blocked) ==
    \/ device_id \in _PROTECTED_DEVICE_IDS /\ action_name = "off"
    \/ device_id \in DOMAIN pattern_blocked /\ action_name \in pattern_blocked[device_id]

(***************************************************************************)
(* Plan executor (OrchestratorAgent._execute_action_plan).  The result     *)
(* carries the device registry after the plan, the `executed` and `failed` *)
(* lists and the list of calls made to the device collaborator.            *)
(***************************************************************************)
BLOCKED_CRITICAL == "BLOCKED (critical device)"

BLOCKED_USER == "BLOCKED (user constraint)"

INVALID_SPEC == "Invalid action spec"

FailedEntry(a, reason) ==
    [device_id |-> a.device_id, action |-> a.action, reason |-> reason]

\* `notified` lists the actions whose call broadcast a device_state
\* notification.
Notified(acc, a, r) == IF r.broadcast THEN Append(acc.notified, a) ELSE acc.notified

ExecResult(devs) ==
    [devices |-> devs, executed |-> <<>>, failed |-> <<>>, calls |-> <<>>,
     notified |-> <<>>]

\* One iteration of the loop of _execute_action_plan; `store_fails` tells
\* whether the collaborator raises on this call (caught by the loop's
\* try/except, which records the exception in `failed`).  The first
\* variant drops an invalid action without recording it.
ExecuteOneActionDropsInvalid(acc, a, pattern_blocked, store_fails) ==
    IF a.device_id = "" \/ a.action = ""
    THEN acc
    ELSE IF a.device_id \in _PROTECTED_DEVICE_IDS /\ a.action = "off"
    THEN [acc EXCEPT !.failed = Append(@, FailedEntry(a, BLOCKED_CRITICAL))]
    ELSE IF a.device_id \in DOMAIN pattern_blocked
            /\ a.action \in pattern_blocked[a.device_id]
    THEN [acc EXCEPT !.failed = Append(@, FailedEntry(a, BLOCKED_USER))]
    ELSE LET r == HomeExecuteAction(acc.devices, a.device_id, a.action, a.parameters)
         IN IF r.success
            THEN [devices |-> r.devices,
                  executed |-> Append(acc.executed, a),
                  failed |-> acc.failed,
                  calls |-> Append(acc.calls, a),
                  notified |-> Notified(acc, a, r)]
            ELSE [devices |-> r.devices,
                  executed |-> acc.executed,
                  failed |-> Append(acc.failed, FailedEntry(a, r.error)),
                  calls |-> Append(acc.calls, a),
                  notified |-> Notified(acc, a, r)]

ExecuteOneAction(acc, a, pattern_blocked, store_fails) ==
    IF a.device_id = "" \/ a.action = ""
    THEN [acc EXCEPT !.failed = Append(@, FailedEntry(a, INVALID_SPEC))]
    ELSE IF a.device_id \in _PROTECTED_DEVICE_IDS /\ a.action = "off"
    THEN [acc EXCEPT !.failed = Append(@, FailedEntry(a, BLOCKED_CRITICAL))]
    ELSE IF a.device_id \in DOMAIN pattern_blocked
            /\ a.action \in pattern_blocked[a.device_id]
    THEN [acc EXCEPT !.failed = Append(@, FailedEntry(a, BLOCKED_USER))]
    ELSE LET r == IF store_fails
                  THEN HomeExecuteActionStoreFails(acc.devices, a.device_id, a.action,
                                                   a.parameters)
                  ELSE HomeExecuteAction(acc.devices, a.device_id, a.action,
                                         a.parameters)
         IN IF r.success
            THEN [devices |-> r.devices,
                  executed |-> Append(acc.executed, a),
                  failed |-> acc.failed,
                  calls |-> Append(acc.calls, a),
                  notified |-> Notified(acc, a, r)]
            ELSE [devices |-> r.devices,
                  executed |-> acc.executed,
                  failed |-> Append(acc.failed, FailedEntry(a, r.error)),
                  calls |-> Append(acc.calls, a),
                  notified |-> Notified(acc, a, r)]

\* The loop of _execute_action_plan from action i on; `fails` holds the
\* positions of the plan at which the collaborator raises.
RECURSIVE ExecuteFrom(_, _, _, _, _)
ExecuteFrom(acc, actions, i, pattern_blocked, fails) ==
    IF i > Len(actions) THEN acc
    ELSE ExecuteFrom(ExecuteOneAction(acc, actions[i], pattern_blocked, i \in fails),
                     actions, i + 1, pattern_blocked, fails)

\* _execute_action_plan with the collaborator raising at the positions in
\* `fails`.
ExecutePlanWithFailures(devs, pats, actions, fails) ==
    ExecuteFrom(ExecResult(devs), actions, 1, _get_blocked_actions_from_patterns(pats),
                fails)

_execute_action_plan_constraints_at_start(devs, pats, actions) ==
    ExecutePlanWithFailures(devs, NoPatterns, actions, {})

_execute_action_plan(devs, pats, actions) ==
    ExecutePlanWithFailures(devs, pats, actions, {})

(***************************************************************************)
(* State.                                                                  *)
(***************************************************************************)
VARIABLES
    devices,              \* DeviceRegistry._devices: device id -> state
    priority_tier,        \* priority tier of every device (devices.yaml)
    patterns,             \* PatternDetectorAgent._detected_patterns
    store,                \* durable pattern store (event_store patterns table)
    detached,             \* pattern objects removed from the dict but still
                          \* referenced by a suspended merge
    learns,               \* learn_user_preference calls in flight
    nextPid,              \* number of pattern ids handed out so far
    lastRun,              \* the last run of _execute_action_plan
    pending_permissions,  \* VoiceAgent._pending_permissions: alert id -> future
    voice_runs,           \* VoiceAgent.run calls, one per alert id
    voice_log,            \* broadcasts, responses and returns, in order
    alert_history,        \* VoiceAgent._alert_history
    wait_for_impl,        \* which asyncio.wait_for the interpreter provides
    decision_history,     \* OrchestratorAgent._decision_history (record keys)
    threat_handler,       \* position of the monitoring loop in _handle_threat
    last_threat_call,     \* the last call of _handle_threat and what it found
    current_home_mode,    \* OrchestratorAgent._current_home_mode
    pre_mode_device_snapshot, \* OrchestratorAgent._pre_mode_device_snapshot
    dnd_active,           \* VoiceAgent._dnd_active
    mode_handler,         \* position of the loop in _handle_calendar_context
    last_transition,      \* the last completed mode transition
    last_location_handled, \* OrchestratorAgent._last_location_handled
    location_tasks,       \* handle_location_change tasks created, not yet started
    location_handlers,    \* handle_location_change calls suspended at the planner
    location_log,         \* the calls of handle_location_change and the resets
    monitor,              \* position of _monitoring_loop in its cycle
    command               \* the handle_user_command call in flight, or the last

patternVars == <<patterns, store, detached, learns, nextPid>>

deviceVars == <<devices, priority_tier>>

voiceVars ==
    <<pending_permissions, voice_runs, voice_log, alert_history, wait_for_impl>>

threatVars == <<decision_history, threat_handler, last_threat_call>>

modeVars ==
    <<current_home_mode, pre_mode_device_snapshot, dnd_active, mode_handler,
      last_transition>>

locationVars ==
    <<last_location_handled, location_tasks, location_handlers, location_log>>

(***************************************************************************)
(* Inputs of the pattern engine: user utterances, what the planner may     *)
(* return for a parse or a merge request, and what the statistical         *)
(* detection may propose.  The planner is untrusted: any result may come   *)
(* back for any utterance.                                                 *)
(***************************************************************************)
Utterances == {T_NEVER_UNLOCK, T_meeting_light}

A_light_on == PatternAction("light_living_main", "on", [brightness |-> 80])

A_lock_lock == PatternAction("lock_front_door", "lock", EmptyParams)

A_lock_unlock == PatternAction("lock_front_door", "unlock", EmptyParams)

A_fridge_off == PatternAction("plug_kitchen_fridge", "off", EmptyParams)

A_battery_off == PatternAction("battery_main", "off", EmptyParams)

A_tv_off == PatternAction("plug_living_tv", "off", EmptyParams)

A_tv_on == PatternAction("plug_living_tv", "on", EmptyParams)

PlannerError == [error |-> TRUE]

Parsed(tt, tv, desc, acts) ==
    [error |-> FALSE, trigger_type |-> tt, trigger_value |-> tv,
     description |-> desc, actions |-> acts]

ParseResults ==
    {PlannerError,
     Parsed("calendar_mode", "do_not_disturb", T_meeting_light, <<A_light_on>>),
     Parsed("global", "always", T_NEVER_UNLOCK, <<A_lock_unlock>>),
     Parsed("global", "always", T_never_off, <<A_fridge_off>>),
     Parsed("global", "always", T_movie_on, <<>>)}

Merged(desc, acts) ==
    [error |-> FALSE, display_name |-> "Updated Preference", description |-> desc,
     actions |-> acts]

MergeResults ==
    {PlannerError,
     Merged(T_meeting_light, <<A_light_on, A_lock_lock>>),
     Merged(T_NEVER_UNLOCK, <<A_lock_unlock, A_fridge_off>>),
     Merged(T_never_off, <<A_battery_off>>)}

\* A DetectedPattern.  Confidence is in hundredths.  Times are counted per
\* object from its creation, on a clock that does not go backwards:
\* Later(t) is a reading of datetime.now() taken after t.
Later(t) == t + 1

Pattern(ptype, tt, tv, desc, acts, approved, utterance) ==
    [pattern_type |-> ptype, display_name |-> "User Preference",
     trigger_type |-> tt, trigger_value |-> tv,
     description |-> desc, frequency |-> 1, confidence |-> 100,
     action_sequence |-> acts, approved |-> approved,
     last_occurrence |-> 0, created_at |-> 0,
     source_utterance |-> utterance]

\* result.get("display_name", default)
DisplayNameOf(result, default) ==
    IF "display_name" \in DOMAIN result THEN result.display_name ELSE default

\* Patterns the statistical detection may add (unapproved, content chosen
\* by the planner or by the rule-based detector).
DetectedCandidates ==
    {[Pattern("routine", "none", "none", T_movie_on, <<A_tv_on>>, FALSE, <<>>)
         EXCEPT !.display_name = "Unknown Pattern", !.confidence = 50],
     [Pattern("energy", "global", "always", T_never_off, <<A_fridge_off, A_tv_off>>,
              FALSE, <<>>)
         EXCEPT !.display_name = "Unknown Pattern", !.confidence = 50]}

(***************************************************************************)
(* Pattern engine (agents/pattern_detector.py).                            *)
(***************************************************************************)
CRITICAL_DEVICE_IDS == {"plug_kitchen_fridge", "battery_main"}

RECURSIVE SafetyFilter(_)
\* The safety net of _create_new_pattern / _update_existing_pattern: drop
\* every `off` on a statically-critical device id, keep the order.
SafetyFilter(acts) ==
    IF acts = <<>> THEN <<>>
    ELSE LET a == Head(acts)
         IN IF a.device_id \in CRITICAL_DEVICE_IDS /\ a.action = "off"
            THEN SafetyFilter(Tail(acts))
            ELSE <<a>> \o SafetyFilter(Tail(acts))

LearnIds == 1..MaxLearns

IdleLearn == [pc |-> "idle"]

\* What learn_user_preference returns, with the notification it broadcast
\* on the way ("none" on every failure return).  The first variant
\* broadcasts before returning a failure.
ReturnedAfterBroadcast(success, error) ==
    [pc |-> "returned", success |-> success, error |-> error,
     broadcast |-> "pattern_learned"]

Returned(success, error) ==
    [pc |-> "returned", success |-> success, error |-> error, broadcast |-> "none"]

\* The DetectedPattern built by _create_new_pattern.  The first variant
\* leaves the approval to a later approve_pattern call.
NewUserPatternUnapproved(parsed, actions, msg) ==
    [Pattern("user_defined", parsed.trigger_type, parsed.trigger_value,
             parsed.description, actions, FALSE, msg)
        EXCEPT !.display_name = DisplayNameOf(parsed, "User Preference")]

NewUserPattern(parsed, actions, msg) ==
    [Pattern("user_defined", parsed.trigger_type, parsed.trigger_value,
             parsed.description, actions, TRUE, msg)
        EXCEPT !.display_name = DisplayNameOf(parsed, "User Preference")]

\* The in-place update of _update_existing_pattern.  The first variant
\* builds a new pattern object for the merged instruction instead.
RebuiltOnMerge(existing, result, msg) ==
    [NewUserPattern(result @@ [trigger_type |-> existing.trigger_type,
                               trigger_value |-> existing.trigger_value],
                    SafetyFilter(result.actions),
                    existing.source_utterance \o T_SEPARATOR \o msg)
        EXCEPT !.created_at = Later(existing.last_occurrence),
               !.last_occurrence = Later(existing.last_occurrence)]

UpdatedInPlace(existing, result, msg) ==
    [existing EXCEPT !.display_name = DisplayNameOf(result, existing.display_name),
                     !.description = result.description,
                     !.action_sequence = SafetyFilter(result.actions),
                     !.source_utterance = @ \o T_SEPARATOR \o msg,
                     !.last_occurrence = Later(@)]

\* The existing actions written into the merge prompt, before the planner
\* is awaited.
existing_actions_text(existing) == existing.action_sequence

\* The answer the merge prompt asks the planner for: every existing action
\* is kept and the new instruction's actions are added.
KeepAllAndAdd(existing_actions, new_actions) ==
    LET IsNew(a) == a \notin SeqRange(existing_actions)
    IN existing_actions \o SelectSeq(new_actions, IsNew)

\* learn_user_preference is called: the parse request goes to the planner.
LearnStart(l, msg) ==
    /\ learns[l].pc = "idle"
    /\ learns' = [learns EXCEPT ![l] = [pc |-> "parsing", msg |-> msg]]
    /\ UNCHANGED <<patterns, store, detached, nextPid>>

\* The planner answers the parse request; learn_user_preference runs up to
\* its next suspension: failure returns, the merge request, or the creation
\* of the pattern in memory (_create_new_pattern up to _persist_pattern).
LearnParsed(l, result) ==
    /\ learns[l].pc = "parsing"
    /\ LET msg == learns[l].msg
           existing == IF result.error THEN {}
                       ELSE _find_matching_user_pattern(patterns, result.trigger_type,
                                                        result.trigger_value)
       IN IF result.error
          THEN /\ learns' = [learns EXCEPT ![l] =
                                Returned(FALSE, "Could not understand the preference")]
               /\ UNCHANGED <<patterns, store, detached, nextPid>>
          ELSE IF result.actions = <<>>
          THEN /\ learns' = [learns EXCEPT ![l] =
                                Returned(FALSE, "No device actions could be identified")]
               /\ UNCHANGED <<patterns, store, detached, nextPid>>
          ELSE IF existing # {}
          THEN /\ learns' = [learns EXCEPT ![l] =
                                LET pid == CHOOSE p \in existing :
                                              \A q \in existing : p <= q
                                IN [pc |-> "merging", msg |-> msg,
                                    parsed |-> result.actions,
                                    existing |-> pid,
                                    prompt_actions |->
                                        existing_actions_text(patterns[pid])]]
               /\ UNCHANGED <<patterns, store, detached, nextPid>>
          ELSE LET actions == SafetyFilter(result.actions)
                   pid == nextPid + 1
               IN IF actions = <<>>
                  THEN /\ learns' = [learns EXCEPT ![l] =
                              Returned(FALSE, "No safe device actions could be identified")]
                       /\ UNCHANGED <<patterns, store, detached, nextPid>>
                  ELSE /\ nextPid < MaxPatternIds
                       /\ nextPid' = pid
                       /\ patterns' = (pid :> NewUserPattern(result, actions, msg))
                                          @@ patterns
                       /\ learns' = [learns EXCEPT ![l] =
                                        [pc |-> "persisting", pid |-> pid,
                                         data |-> patterns'[pid],
                                         event |-> "pattern_learned"]]
                       /\ UNCHANGED <<store, detached>>

\* The planner answers the merge request (_update_existing_pattern after
\* its await): the existing pattern object is updated in place, whether or
\* not it is still in the pattern set.
LearnMerged(l, result) ==
    /\ learns[l].pc = "merging"
    /\ LET pid == learns[l].existing
           obj == IF pid \in DOMAIN patterns THEN patterns[pid] ELSE detached[pid]
           new_actions == IF result.error THEN <<>> ELSE SafetyFilter(result.actions)
           updated == UpdatedInPlace(obj, result, learns[l].msg)
       IN IF result.error
          THEN /\ learns' = [learns EXCEPT ![l] =
                                Returned(FALSE, "Could not merge the preference update")]
               /\ UNCHANGED <<patterns, store, detached, nextPid>>
          ELSE IF new_actions = <<>>
          THEN /\ learns' = [learns EXCEPT ![l] =
                                Returned(FALSE, "No safe actions after merge")]
               /\ UNCHANGED <<patterns, store, detached, nextPid>>
          ELSE /\ Len(updated.source_utterance) <= MaxUtteranceLen
               /\ IF pid \in DOMAIN patterns
                  THEN /\ patterns' = [patterns EXCEPT ![pid] = updated]
                       /\ UNCHANGED detached
                  ELSE /\ detached' = [detached EXCEPT ![pid] = updated]
                       /\ UNCHANGED patterns
               /\ learns' = [learns EXCEPT ![l] =
                                [pc |-> "persisting", pid |-> pid, data |-> updated,
                                 event |-> "pattern_updated"]]
               /\ UNCHANGED <<store, nextPid>>

\* _persist_pattern completes: the captured record reaches the store, the
\* notification is broadcast and the learn call returns success.
LearnPersisted(l) ==
    /\ learns[l].pc = "persisting"
    /\ store' = (learns[l].pid :> learns[l].data) @@ store
    /\ learns' = [learns EXCEPT ![l] =
                     [Returned(TRUE, "") EXCEPT !.broadcast = learns[l].event]]
    /\ UNCHANGED <<patterns, detached, nextPid>>

\* approve_pattern(pattern_id); the store write is part of the handler.
approve_pattern(pid) ==
    /\ pid \in DOMAIN patterns
    /\ patterns' = [patterns EXCEPT ![pid].approved = TRUE]
    /\ store' = (pid :> patterns'[pid]) @@ store
    /\ UNCHANGED <<detached, learns, nextPid>>

Restrict(f, S) == [x \in S |-> f[x]]

\* dismiss_pattern(pattern_id): removed from memory and from the store.  The
\* object stays alive while a suspended merge still refers to it.
dismiss_pattern(pid) ==
    /\ pid \in DOMAIN patterns
    /\ patterns' = Restrict(patterns, DOMAIN patterns \ {pid})
    /\ store' = Restrict(store, DOMAIN store \ {pid})
    /\ detached' = IF \E l \in LearnIds : learns[l].pc = "merging"
                                          /\ learns[l].existing = pid
                   THEN (pid :> patterns[pid]) @@ detached
                   ELSE detached
    /\ UNCHANGED <<learns, nextPid>>

\* PatternDetectorAgent.run adds a newly detected pattern under a fresh id.
DetectPattern(candidate) ==
    /\ nextPid < MaxPatternIds
    /\ nextPid' = nextPid + 1
    /\ patterns' = (nextPid' :> candidate) @@ patterns
    /\ store' = (nextPid' :> candidate) @@ store
    /\ UNCHANGED <<detached, learns>>

PatternInit ==
    /\ patterns = NoPatterns
    /\ store = NoPatterns
    /\ detached = NoPatterns
    /\ learns = [l \in LearnIds |-> IdleLearn]
    /\ nextPid = 0

(***************************************************************************)
(* Permission handshake (agents/voice.py).  VoiceAgent.run broadcasts the  *)
(* alert, registers a future under the alert id and waits for it with      *)
(* asyncio.wait_for(future, timeout=60.0); handle_permission_response      *)
(* resolves the future.  All coroutines run on one event loop, so a step   *)
(* below is the code between two suspension points.                        *)
(*                                                                         *)
(* asyncio.wait_for exists in two forms.  Up to Python 3.11 the timer only *)
(* releases the waiting task ("release_waiter"); when the task resumes it  *)
(* returns the future's result if there is one, and otherwise cancels the  *)
(* future and raises TimeoutError one loop iteration later.  Since Python  *)
(* 3.12 the timer cancels the waiting task ("task_cancel"): the future is  *)
(* cancelled at once if it is still pending, and otherwise the task is     *)
(* marked so that it resumes with TimeoutError.                            *)
(***************************************************************************)
MaxResponses == 2

AlertIds == {"a1", "a2"}

WaitForImpls == {"release_waiter", "task_cancel"}

PERMISSION_TIMEOUT == 60

IdleRun == [pc |-> "idle"]

NoPending == [a \in {} |-> 0]

PendingFuture == [state |-> "pending"]

ApprovedResult(approved) == [approved |-> approved, timeout |-> FALSE, error |-> FALSE]

TimeoutResultApproved == [approved |-> TRUE, timeout |-> TRUE, error |-> FALSE]

TimeoutResult == [approved |-> FALSE, timeout |-> TRUE, error |-> FALSE]

ErrorResult == [approved |-> FALSE, timeout |-> FALSE, error |-> TRUE]

RunReturned(require_permission, result) ==
    [pc |-> "returned", require_permission |-> require_permission, result |-> result]

VoiceEvent(kind, aid) == [kind |-> kind, alert_id |-> aid]

ResponseEvent(aid, approved, returned) ==
    [kind |-> "response", alert_id |-> aid, approved |-> approved, returned |-> returned]

ResponsesIn(log) == {i \in 1..Len(log) : log[i].kind = "response"}

\* The suppression test of VoiceAgent.run.  The first variant silences
\* every alert while do-not-disturb is active.
suppress_audio_whenever_dnd(dnd, require_permission, threat_level) == dnd

suppress_audio(dnd, require_permission, threat_level) ==
    dnd /\ ~(require_permission \/ threat_level \in {"high", "critical"})

\* The alert dict of VoiceAgent.run; `audio` tells whether audio_base64 is
\* set, `tts_ok` whether the speech service returns audio when asked, and
\* threat_level keeps the argument of the call.
Alert(aid, require_permission, threat_level, dnd, tts_ok) ==
    [alert_id |-> aid, require_permission |-> require_permission,
     threat_level |-> threat_level,
     status |-> IF require_permission THEN "pending" ELSE "info",
     dnd_suppressed |-> suppress_audio(dnd, require_permission, threat_level),
     audio |-> ~suppress_audio(dnd, require_permission, threat_level) /\ tts_ok]

\* VoiceAgent.run up to the broadcast of the alert.  Without a permission
\* request the call returns approved.
VoiceRunWith(aid, require_permission, threat_level, tts_ok) ==
    /\ voice_runs[aid].pc = "idle"
    /\ alert_history' = Append(alert_history,
                               Alert(aid, require_permission, threat_level,
                                     dnd_active, tts_ok))
    /\ voice_log' = Append(voice_log, VoiceEvent("voice_alert", aid))
    /\ voice_runs' = [voice_runs EXCEPT ![aid] =
           IF require_permission
           THEN [pc |-> "alerted", require_permission |-> TRUE]
           ELSE RunReturned(FALSE, ApprovedResult(TRUE))]
    /\ UNCHANGED <<pending_permissions, wait_for_impl>>

\* The same for a call without threat context, the speech service answering.
VoiceRun(aid, require_permission) == VoiceRunWith(aid, require_permission, "", TRUE)

\* Logging the alert raises after the broadcast: the outer handler returns
\* approved=False with the error, and no future is ever registered.
VoiceRunFails(aid) ==
    /\ voice_runs[aid].pc = "alerted"
    /\ voice_runs' = [voice_runs EXCEPT ![aid] = RunReturned(TRUE, ErrorResult)]
    /\ UNCHANGED <<pending_permissions, voice_log, wait_for_impl, alert_history>>

\* The future is created and registered; the call suspends in wait_for.
VoiceAwaitPermission(aid) ==
    /\ voice_runs[aid].pc = "alerted"
    /\ pending_permissions' = (aid :> PendingFuture) @@ pending_permissions
    /\ voice_runs' = [voice_runs EXCEPT ![aid] =
           [pc |-> "waiting", require_permission |-> TRUE,
            timer_fired |-> FALSE, must_cancel |-> FALSE]]
    /\ UNCHANGED <<voice_log, wait_for_impl, alert_history>>

\* handle_permission_response(alert_id, approved).  Future.set_result raises
\* InvalidStateError unless the future is pending; the exception leaves the
\* handler before anything is broadcast.
handle_permission_response(aid, approved) ==
    /\ Cardinality(ResponsesIn(voice_log)) < MaxResponses
    /\ IF aid \notin DOMAIN pending_permissions
       THEN /\ voice_log' = Append(voice_log, ResponseEvent(aid, approved, "False"))
            /\ UNCHANGED pending_permissions
       ELSE IF pending_permissions[aid].state = "pending"
       THEN /\ pending_permissions' = [pending_permissions EXCEPT ![aid] =
                   [state |-> "finished", approved |-> approved]]
            /\ voice_log' = voice_log \o
                   <<ResponseEvent(aid, approved, "True"),
                     VoiceEvent("voice_alert_response", aid)>>
       ELSE /\ voice_log' = Append(voice_log,
                                   ResponseEvent(aid, approved, "InvalidStateError"))
            /\ UNCHANGED pending_permissions
    /\ UNCHANGED <<voice_runs, wait_for_impl, alert_history>>

\* The 60-second timer of wait_for fires while the call is suspended.
TimerFires(aid) ==
    /\ voice_runs[aid].pc = "waiting"
    /\ ~voice_runs[aid].timer_fired
    /\ IF wait_for_impl = "task_cancel"
       THEN IF pending_permissions[aid].state = "pending"
            THEN /\ pending_permissions' = [pending_permissions EXCEPT ![aid] =
                        [state |-> "cancelled"]]
                 /\ voice_runs' = [voice_runs EXCEPT ![aid].timer_fired = TRUE]
            ELSE /\ voice_runs' = [voice_runs EXCEPT ![aid].timer_fired = TRUE,
                                                     ![aid].must_cancel = TRUE]
                 /\ UNCHANGED pending_permissions
       ELSE /\ voice_runs' = [voice_runs EXCEPT ![aid].timer_fired = TRUE]
            /\ UNCHANGED pending_permissions
    /\ UNCHANGED <<voice_log, wait_for_impl, alert_history>>

Remove(f, k) == [x \in DOMAIN f \ {k} |-> f[x]]

\* The except asyncio.TimeoutError branch of VoiceAgent.run.
TimeoutBranch(aid) ==
    /\ pending_permissions' = Remove(pending_permissions, aid)
    /\ voice_log' = voice_log \o <<VoiceEvent("voice_alert_timeout", aid),
                                   VoiceEvent("run_returned", aid)>>
    /\ voice_runs' = [voice_runs EXCEPT ![aid] = RunReturned(TRUE, TimeoutResult)]

\* wait_for returned the future's result.  The first variant returns
\* without deleting the pending entry.
ResultBranchKeepsEntry(aid) ==
    /\ UNCHANGED pending_permissions
    /\ voice_log' = Append(voice_log, VoiceEvent("run_returned", aid))
    /\ voice_runs' = [voice_runs EXCEPT ![aid] =
           RunReturned(TRUE, ApprovedResult(pending_permissions[aid].approved))]

ResultBranch(aid) ==
    /\ pending_permissions' = Remove(pending_permissions, aid)
    /\ voice_log' = Append(voice_log, VoiceEvent("run_returned", aid))
    /\ voice_runs' = [voice_runs EXCEPT ![aid] =
           RunReturned(TRUE, ApprovedResult(pending_permissions[aid].approved))]

\* The suspended call is resumed, by the future's completion or by the
\* timer.
WaiterResumes(aid) ==
    /\ voice_runs[aid].pc = "waiting"
    /\ pending_permissions[aid].state # "pending" \/ voice_runs[aid].timer_fired
    /\ IF wait_for_impl = "task_cancel"
       THEN IF pending_permissions[aid].state = "cancelled" \/ voice_runs[aid].must_cancel
            THEN TimeoutBranch(aid)
            ELSE ResultBranch(aid)
       ELSE IF pending_permissions[aid].state = "finished"
            THEN ResultBranch(aid)
            ELSE /\ pending_permissions' = [pending_permissions EXCEPT ![aid] =
                        [state |-> "cancelled"]]
                 /\ voice_runs' = [voice_runs EXCEPT ![aid].pc = "cancelling"]
                 /\ UNCHANGED voice_log
    /\ UNCHANGED <<wait_for_impl, alert_history>>

\* "release_waiter" only: the cancellation of the future has been awaited
\* and wait_for raises TimeoutError.
WaiterCancelled(aid) ==
    /\ voice_runs[aid].pc = "cancelling"
    /\ TimeoutBranch(aid)
    /\ UNCHANGED <<wait_for_impl, alert_history>>

\* The task running the suspended call is cancelled (OrchestratorAgent.stop
\* cancels the monitoring task): the awaited future is cancelled if it is
\* still pending and CancelledError leaves VoiceAgent.run, which catches
\* TimeoutError and Exception only; no handler deletes the pending entry.
TaskCancelled(aid) ==
    /\ voice_runs[aid].pc = "waiting"
    /\ pending_permissions' =
          IF pending_permissions[aid].state = "pending"
          THEN [pending_permissions EXCEPT ![aid] = [state |-> "cancelled"]]
          ELSE pending_permissions
    /\ voice_runs' = [voice_runs EXCEPT ![aid] =
                         [pc |-> "cancelled", require_permission |-> TRUE]]
    /\ UNCHANGED <<voice_log, wait_for_impl, alert_history>>

VoiceInit ==
    /\ pending_permissions = NoPending
    /\ voice_runs = [a \in AlertIds |-> IdleRun]
    /\ voice_log = <<>>
    /\ alert_history = <<>>
    /\ wait_for_impl \in WaitForImpls

(***************************************************************************)
(* Running a plan.  The planner is untrusted: a plan is any sequence of    *)
(* actions, including malformed ones.                                      *)
(***************************************************************************)
PlanAction(d, a, params) == [device_id |-> d, action |-> a, parameters |-> params]

NoRun ==
    [origin |-> "none", actions |-> <<>>, executed |-> <<>>, failed |-> <<>>,
     calls |-> <<>>, notified |-> <<>>, patterns |-> NoPatterns]

RunRecord(origin, actions, r, pats) ==
    [origin |-> origin, actions |-> actions, executed |-> r.executed,
     failed |-> r.failed, calls |-> r.calls, notified |-> r.notified,
     patterns |-> pats]

\* One run of _execute_action_plan on a plan proposed by the planner; lastRun
\* keeps the plan, the pattern set it ran under and what the run returned.
RunPlan(actions) ==
    LET r == _execute_action_plan(devices, patterns, actions)
    IN /\ devices' = r.devices
       /\ lastRun' = RunRecord("plan", actions, r, patterns)
       /\ UNCHANGED <<priority_tier>>

DeviceInit ==
    /\ devices = [d \in DeviceIds |-> InitialDeviceState(d)]
    /\ lastRun = NoRun

(***************************************************************************)
(* Threat handling (OrchestratorAgent._handle_threat), called by the       *)
(* monitoring loop only, one call at a time.  A decision record is kept by *)
(* its key: f"{type}_{level}" for a threat, none for a user command; type  *)
(* and level are kept apart here, which loses nothing because no level     *)
(* contains an underscore.                                                 *)
(***************************************************************************)
MaxHistory == 7

ThreatLevel == {"none", "low", "medium", "high", "critical"}

Assessments == [threat_type : {"heat_wave"}, threat_level : ThreatLevel]

requires_user_permission_critical_only(assessment) ==
    assessment.threat_level = "critical"

requires_user_permission(assessment) ==
    assessment.threat_level \in {"high", "critical"}

ThreatKey(assessment) ==
    [kind |-> "threat", type |-> assessment.threat_type,
     level |-> assessment.threat_level]

NoKey == [kind |-> "none"]

recent_decisions(history) == SeqRange(Last5(history))

DeviceOrder ==
    <<"plug_kitchen_fridge", "plug_living_tv", "light_living_main",
      "lock_front_door", "thermostat_living", "battery_main">>

DirectCall(d, a, params, reported) ==
    [device_id |-> d, action |-> a, parameters |-> params, reported |-> reported]

\* Calls made straight to home_state_agent.execute_action, in order; only
\* the calls whose result the code looks at are reported in `executed`.
RECURSIVE DirectCalls(_, _, _)
DirectCalls(acc, calls, i) ==
    IF i > Len(calls) THEN acc
    ELSE LET c == calls[i]
             a == PatternAction(c.device_id, c.action, c.parameters)
             r == HomeExecuteAction(acc.devices, c.device_id, c.action, c.parameters)
         IN DirectCalls([devices |-> r.devices,
                         executed |-> IF r.success /\ c.reported
                                      THEN Append(acc.executed, a) ELSE acc.executed,
                         failed |-> acc.failed,
                         calls |-> Append(acc.calls, a),
                         notified |-> Notified(acc, a, r)],
                        calls, i + 1)

RECURSIVE Flatten(_)
Flatten(ss) == IF ss = <<>> THEN <<>> ELSE Head(ss) \o Flatten(Tail(ss))

\* The heat_wave branch of _fallback_threat_response.
_fallback_threat_response(devs, tiers, pats) ==
    LET pattern_blocked == _get_blocked_actions_from_patterns(pats)
        IsThermostat(d) == device_type[d] = "thermostat"
        thermostats == SelectSeq(DeviceOrder, IsThermostat)
        cool == Flatten([i \in 1..Len(thermostats) |->
                    <<DirectCall(thermostats[i], "set_temperature",
                                 [temperature |-> 68], FALSE),
                      DirectCall(thermostats[i], "set_mode", [mode |-> "cool"], TRUE)>>])
        cooled == DirectCalls(ExecResult(devs), cool, 1)
        NonEssentialOn(d) ==
            /\ tiers[d] \in {"low", "optional"}
            /\ cooled.devices[d].power
            /\ device_type[d] \notin {"sensor", "battery", "lock"}
            /\ ~_is_action_blocked(d, "off", pattern_blocked)
        targets == SelectSeq(DeviceOrder, NonEssentialOn)
        off == [i \in 1..Len(targets) |-> DirectCall(targets[i], "off", EmptyParams, TRUE)]
        charge == <<DirectCall("battery_main", "set_mode", [mode |-> "charge"], TRUE)>>
    IN DirectCalls(cooled, off \o charge, 1)

\* _execute_threat_response: the planner's plan goes through the plan
\* executor; a planner error falls back to the rules.
_execute_threat_response(devs, tiers, pats, result) ==
    IF result.error
    THEN _fallback_threat_response(devs, tiers, pats)
    ELSE _execute_action_plan(devs, pats, result.actions)

Planned(actions) == [error |-> FALSE, actions |-> actions]

ThreatPlannerResults ==
    {PlannerError,
     Planned(<<PatternAction("thermostat_living", "set_temperature", [temperature |-> 68]),
               PatternAction("plug_kitchen_fridge", "off", EmptyParams)>>)}

IdleHandler == [pc |-> "idle"]

NoThreatCall == [skipped |-> FALSE, history |-> <<>>]

FreeAlertIds == {a \in AlertIds : voice_runs[a].pc = "idle"}

\* Step 1 of _check_and_respond and _handle_threat up to its first await:
\* the duplicate test, then the call of voice_agent.run.
HandleThreatBegin(assessment) ==
    /\ threat_handler.pc = "idle"
    /\ assessment.threat_level \in {"high", "critical"}
    /\ LET key == ThreatKey(assessment)
           call == [key |-> key, history |-> decision_history]
       IN IF key \in recent_decisions(decision_history)
          THEN /\ last_threat_call' = call @@ [skipped |-> TRUE]
               /\ UNCHANGED <<threat_handler, voiceVars>>
          ELSE /\ FreeAlertIds # {}
               /\ LET aid == CHOOSE a \in FreeAlertIds : TRUE
                  IN /\ VoiceRunWith(aid, requires_user_permission(assessment),
                                     assessment.threat_level, TRUE)
                     /\ threat_handler' = [pc |-> "voice", assessment |-> assessment,
                                           alert_id |-> aid]
                     /\ last_threat_call' = call @@ [skipped |-> FALSE, alert_id |-> aid]
    /\ UNCHANGED <<devices, priority_tier, lastRun, decision_history>>

\* voice_agent.run has returned: the response is executed if it was
\* approved (or needed no permission), and the decision is recorded.
HandleThreatResume(result) ==
    /\ threat_handler.pc = "voice"
    /\ voice_runs[threat_handler.alert_id].pc = "returned"
    /\ Len(decision_history) < MaxHistory
    /\ LET assessment == threat_handler.assessment
           needs_permission == requires_user_permission(assessment)
           approved == voice_runs[threat_handler.alert_id].result.approved
           r == _execute_threat_response(devices, priority_tier, patterns, result)
       IN /\ IF (needs_permission /\ approved) \/ ~needs_permission
             THEN /\ devices' = r.devices
                  /\ lastRun' = RunRecord("threat", IF result.error THEN <<>>
                                                    ELSE result.actions, r, patterns)
                                @@ [alert_id |-> threat_handler.alert_id]
             ELSE UNCHANGED <<devices, lastRun>>
          /\ decision_history' = Append(decision_history, ThreatKey(assessment))
    /\ threat_handler' = IdleHandler
    /\ UNCHANGED <<priority_tier, last_threat_call, voiceVars>>

UserPlans == {<<PatternAction("plug_living_tv", "on", EmptyParams)>>}

\* OrchestratorAgent.run for a text command whose plan has actions and no
\* alert message: the plan is executed and a decision without a threat key
\* is recorded.
UserCommandWithin(cap, actions) ==
    /\ Len(decision_history) < cap
    /\ RunPlan(actions)
    /\ decision_history' = Append(decision_history, NoKey)
    /\ UNCHANGED <<threat_handler, last_threat_call>>

UserCommand(actions) == UserCommandWithin(MaxHistory, actions)

\* OrchestratorAgent.decision_history: the accessor read by the agents API
\* returns the last DECISION_HISTORY_VIEW records of the stored list; the
\* stored list itself (_decision_history) is only ever appended to.
DECISION_HISTORY_VIEW == 50

decision_history_view(history) ==
    IF Len(history) <= DECISION_HISTORY_VIEW THEN history
    ELSE SubSeq(history, Len(history) - DECISION_HISTORY_VIEW + 1, Len(history))

ThreatInit ==
    /\ decision_history = <<>>
    /\ threat_handler = IdleHandler
    /\ last_threat_call = NoThreatCall

(***************************************************************************)
(* Home-mode state machine (OrchestratorAgent._handle_calendar_context),   *)
(* called by the monitoring loop, one call at a time.  The calendar        *)
(* suggests the mode; the planner is asked for the device adjustments and  *)
(* the rules of _fallback_mode_transition apply when it fails.             *)
(***************************************************************************)
MaxModeSteps == 4

Modes == {"normal", "sleep", "do_not_disturb"}

ModeKey(mode) == [kind |-> "mode", mode |-> mode]

NoSnapshot == [held |-> FALSE]

\* _snapshot_device_states: power, a copy of the properties and the type
\* of every registered device.
_snapshot_device_states(devs) ==
    [held |-> TRUE,
     states |-> [d \in DeviceIds |->
                    [power |-> devs[d].power, properties |-> devs[d].properties,
                     device_type |-> device_type[d]]]]

DevicesOfType(t) ==
    LET IsType(d) == device_type[d] = t IN SelectSeq(DeviceOrder, IsType)

\* The calls _restore_from_snapshot makes for one device.
RestoreCallsFor(d, saved, current) ==
    LET saved_power == saved.power
        saved_props == saved.properties
        power ==
            IF saved_power /\ ~current.power
            THEN <<DirectCall(d, "on",
                              IF "brightness" \in DOMAIN saved_props
                                 /\ device_type[d] = "light"
                              THEN [brightness |-> saved_props.brightness]
                              ELSE EmptyParams, TRUE)>>
            ELSE IF ~saved_power /\ current.power
            THEN <<DirectCall(d, "off", EmptyParams, TRUE)>>
            ELSE <<>>
        thermostat ==
            IF device_type[d] = "thermostat"
            THEN (IF "target_temperature" \in DOMAIN saved_props
                  THEN <<DirectCall(d, "set_temperature",
                                    [temperature |-> saved_props.target_temperature],
                                    FALSE)>>
                  ELSE <<>>)
                 \o (IF "mode" \in DOMAIN saved_props
                     THEN <<DirectCall(d, "set_mode", [mode |-> saved_props.mode], TRUE)>>
                     ELSE <<>>)
            ELSE <<>>
        lock ==
            IF device_type[d] = "lock"
            THEN <<DirectCall(d, IF Get(saved_props, "locked", FALSE)
                                 THEN "lock" ELSE "unlock", EmptyParams, TRUE)>>
            ELSE <<>>
    IN IF device_type[d] \in {"sensor", "battery"}
       THEN <<>>
       ELSE power \o thermostat \o lock

\* _restore_from_snapshot: every call goes straight to
\* home_state_agent.execute_action.
_restore_from_snapshot(devs, snapshot) ==
    DirectCalls(ExecResult(devs),
                Flatten([i \in 1..Len(DeviceOrder) |->
                            RestoreCallsFor(DeviceOrder[i],
                                            snapshot.states[DeviceOrder[i]],
                                            devs[DeviceOrder[i]])]),
                1)

\* `off` for every powered device of a type, but for the excepted ids.
OnCalls(devs, t, except) ==
    LET IsOn(d) == device_type[d] = t /\ devs[d].power /\ d \notin except
        on == SelectSeq(DeviceOrder, IsOn)
    IN [i \in 1..Len(on) |-> DirectCall(on[i], "off", EmptyParams, TRUE)]

LockCalls(action) ==
    LET locks == DevicesOfType("lock")
    IN [i \in 1..Len(locks) |-> DirectCall(locks[i], action, EmptyParams, TRUE)]

ThermostatCalls(temperature) ==
    LET thermostats == DevicesOfType("thermostat")
    IN Flatten([i \in 1..Len(thermostats) |->
                   <<DirectCall(thermostats[i], "set_temperature",
                                [temperature |-> temperature], FALSE),
                     DirectCall(thermostats[i], "set_mode", [mode |-> "auto"], TRUE)>>])

\* eco_mode for the thermostats outside the office (no registered
\* thermostat has "office" in its id).
EcoCalls ==
    LET thermostats == DevicesOfType("thermostat")
    IN [i \in 1..Len(thermostats) |->
           DirectCall(thermostats[i], "eco_mode", EmptyParams, TRUE)]

\* The static comfort defaults of the `normal` branch.
ComfortDefaultCalls(location) ==
    <<DirectCall("light_living_main", "on", [brightness |-> 80], TRUE),
      DirectCall("light_bedroom_main", "on", [brightness |-> 60], TRUE),
      DirectCall("light_office_main", "on", [brightness |-> 50], TRUE),
      DirectCall("light_kitchen_main", "on", [brightness |-> 80], TRUE)>>
    \o ThermostatCalls(72)
    \o (IF location = "home" THEN LockCalls("unlock") ELSE <<>>)

\* _fallback_mode_transition for the modes sleep, do_not_disturb and
\* normal.  `restored` and `defaults` tell which branch of `normal` ran.
_fallback_mode_transition(devs, snapshot, new_mode, location) ==
    LET run(calls) == DirectCalls(ExecResult(devs), calls, 1)
        none == [restored |-> FALSE, defaults |-> FALSE]
    IN CASE new_mode = "sleep" ->
               run(OnCalls(devs, "light", {}) \o LockCalls("lock") \o ThermostatCalls(68))
                 @@ none
         [] new_mode \in {"do_not_disturb", "focus"} ->
               run(<<DirectCall("light_office_main", "on", [brightness |-> 70], TRUE)>>
                   \o OnCalls(devs, "light", {"light_office_main"}) \o EcoCalls
                   \o LockCalls("lock") \o OnCalls(devs, "coffee_maker", {}))
                 @@ none
         [] new_mode = "preparing_for_meeting" ->
               run(<<DirectCall("light_office_main", "on", [brightness |-> 80], TRUE),
                     DirectCall("light_living_main", "dim", [brightness |-> 30], TRUE),
                     DirectCall("light_bedroom_main", "dim", [brightness |-> 30], TRUE),
                     DirectCall("light_kitchen_main", "dim", [brightness |-> 30], TRUE)>>
                   \o LockCalls("lock"))
                 @@ none
         [] new_mode = "normal" ->
               IF snapshot.held
               THEN _restore_from_snapshot(devs, snapshot)
                      @@ [restored |-> TRUE, defaults |-> FALSE]
               ELSE run(ComfortDefaultCalls(location))
                      @@ [restored |-> FALSE, defaults |-> TRUE]

\* _execute_mode_transition: the planner's plan goes through the plan
\* executor and nothing else runs; a planner error falls back to the rules.
_execute_mode_transition(devs, pats, snapshot, new_mode, location, result) ==
    IF result.error
    THEN _fallback_mode_transition(devs, snapshot, new_mode, location)
    ELSE _execute_action_plan(devs, pats, result.actions)
           @@ [restored |-> FALSE, defaults |-> FALSE]

\* Answers of the planner to a mode transition: a failure, an empty plan
\* and a plan that switches the living-room light off; none carries a
\* voice message.
ModePlannerResults ==
    {PlannerError,
     Planned(<<>>),
     Planned(<<PatternAction("light_living_main", "off", EmptyParams)>>)}

IdleModeHandler == [pc |-> "idle"]

NoTransition == [new_mode |-> "none"]

UserLocation == "home"

\* The snapshot step of _handle_calendar_context: taken when normal is
\* left, kept otherwise.  The first variant takes it whenever the new mode
\* is not normal.
SnapshotOnEveryExcursion(old_mode, new_mode, snapshot, devs) ==
    IF new_mode # "normal" THEN _snapshot_device_states(devs) ELSE snapshot

SnapshotOnLeavingNormal(old_mode, new_mode, snapshot, devs) ==
    IF old_mode = "normal" /\ new_mode # "normal"
    THEN _snapshot_device_states(devs)
    ELSE snapshot

\* The early return of _handle_calendar_context: a suggested mode equal to
\* the current one is no transition.  The first variant never returns early.
NoChangeNever(suggested, current) == FALSE

NoChange(suggested, current) == suggested = current

\* The do-not-disturb switch of _handle_calendar_context (voice_agent
\* .set_dnd_mode).  The first variant never switches it off again.
DndSwitchOnOnly(old_mode, new_mode, dnd) ==
    IF new_mode \in {"do_not_disturb", "focus"} THEN TRUE ELSE dnd

DndSwitch(old_mode, new_mode, dnd) ==
    IF new_mode \in {"do_not_disturb", "focus"} THEN TRUE
    ELSE IF old_mode \in {"do_not_disturb", "focus"} THEN FALSE
    ELSE dnd

\* The end of _handle_calendar_context: the snapshot is dropped once the
\* home is back in normal mode.  The first variant keeps it.
SnapshotNeverCleared(new_mode, snapshot) == snapshot

SnapshotClearedOnNormal(new_mode, snapshot) ==
    IF new_mode = "normal" THEN NoSnapshot ELSE snapshot

\* _handle_calendar_context up to the planner request: the snapshot when
\* leaving normal, and the do-not-disturb switch of the voice agent.
ModeTransitionBegin(suggested) ==
    /\ mode_handler.pc = "idle"
    /\ ~NoChange(suggested, current_home_mode)
    /\ Len(decision_history) < MaxModeSteps
    /\ pre_mode_device_snapshot' =
          SnapshotOnLeavingNormal(current_home_mode, suggested,
                                  pre_mode_device_snapshot, devices)
    /\ dnd_active' = DndSwitch(current_home_mode, suggested, dnd_active)
    /\ mode_handler' = [pc |-> "planning", old_mode |-> current_home_mode,
                        new_mode |-> suggested]
    /\ UNCHANGED <<current_home_mode, last_transition, decision_history>>

\* The planner has answered: the adjustments are executed, the mode is
\* updated, the snapshot is dropped on a return to normal and the decision
\* is recorded.
ModeTransitionPlanned(result) ==
    /\ mode_handler.pc = "planning"
    /\ LET new_mode == mode_handler.new_mode
           r == _execute_mode_transition(devices, patterns, pre_mode_device_snapshot,
                                         new_mode, UserLocation, result)
       IN /\ devices' = r.devices
          /\ lastRun' = RunRecord("mode", IF result.error THEN <<>> ELSE result.actions,
                                  r, patterns)
                          @@ [planner_failed |-> result.error, fallback |-> result.error]
          /\ voice_log' = IF result.error /\ new_mode \in {"normal", "preparing_for_meeting"}
                          THEN Append(voice_log, VoiceEvent("voice_alert", "mode"))
                          ELSE voice_log
          /\ alert_history' =
                IF result.error /\ new_mode \in {"normal", "preparing_for_meeting"}
                THEN Append(alert_history, Alert("mode", FALSE, "", dnd_active, TRUE))
                ELSE alert_history
          /\ current_home_mode' = new_mode
          /\ pre_mode_device_snapshot' =
                SnapshotClearedOnNormal(new_mode, pre_mode_device_snapshot)
          /\ decision_history' = Append(decision_history, ModeKey(new_mode))
          /\ last_transition' =
                [old_mode |-> mode_handler.old_mode, new_mode |-> new_mode,
                 snapshot |-> pre_mode_device_snapshot,
                 before |-> devices, after |-> r.devices,
                 restored |-> r.restored, defaults |-> r.defaults,
                 restore_calls |-> IF r.restored THEN r.calls ELSE <<>>]
    /\ mode_handler' = IdleModeHandler
    /\ UNCHANGED <<priority_tier, dnd_active, pending_permissions, voice_runs,
                   wait_for_impl>>

ModeInit ==
    /\ current_home_mode = "normal"
    /\ pre_mode_device_snapshot = NoSnapshot
    /\ dnd_active = FALSE
    /\ mode_handler = IdleModeHandler
    /\ last_transition = NoTransition

(***************************************************************************)
(* Location changes (OrchestratorAgent.handle_location_change).  The       *)
(* monitoring loop calls it for `away` and `leaving`; the GPS overrides of *)
(* the simulation panel create a task that calls it.  A call suspends at   *)
(* the planner, so several calls can be in flight.                         *)
(***************************************************************************)
MaxLocationEvents == 4

UserLocations == {"home", "away", "arriving", "leaving"}

NoLocation == "None"

LocationKey(location) == [kind |-> "location", location |-> location]

LocationCall(location, handled) ==
    [kind |-> "call", location |-> location, handled |-> handled]

LocationReset == [kind |-> "reset", location |-> NoLocation, handled |-> FALSE]

\* The dedup test of handle_location_change; the first variant never
\* suppresses a call.
SameAsNever(remembered, new_location) == FALSE

SameAsLastHandled(remembered, new_location) == remembered = new_location

\* Calls of a rule table that are sent only when the constraint set does
\* not block them.
Unblocked(calls, pattern_blocked) ==
    LET Allowed(c) == ~_is_action_blocked(c.device_id, c.action, pattern_blocked)
    IN SelectSeq(calls, Allowed)

\* `off` for the powered smart plugs whose tier is not critical.
PlugOffCalls(devs, tiers) ==
    LET IsTarget(d) ==
            device_type[d] = "smart_plug" /\ tiers[d] # "critical" /\ devs[d].power
        plugs == SelectSeq(DeviceOrder, IsTarget)
    IN [i \in 1..Len(plugs) |-> DirectCall(plugs[i], "off", EmptyParams, TRUE)]

\* _fallback_location_response: the device commands of the rule table.
_fallback_location_response(devs, tiers, pats, location) ==
    LET pattern_blocked == _get_blocked_actions_from_patterns(pats)
        calls ==
            CASE location \in {"away", "leaving"} ->
                    Unblocked(LockCalls("lock") \o OnCalls(devs, "light", {})
                              \o PlugOffCalls(devs, tiers)
                              \o OnCalls(devs, "coffee_maker", {}) \o EcoCalls,
                              pattern_blocked)
              [] location = "arriving" ->
                    Unblocked(LockCalls("unlock"), pattern_blocked)
                    \o <<DirectCall("light_living_main", "on", [brightness |-> 80], TRUE),
                         DirectCall("light_kitchen_main", "on", [brightness |-> 80], TRUE)>>
                    \o ThermostatCalls(72)
              [] location = "home" -> ThermostatCalls(72)
              [] OTHER -> <<>>
    IN DirectCalls(ExecResult(devs), calls, 1)

\* The planner's answers to a location change.
LocationPlannerResults ==
    {PlannerError, Planned(<<A_light_on, A_tv_on>>)}

\* The body of handle_location_change up to the planner request.
HandleLocationBegin(new_location) ==
    IF SameAsLastHandled(last_location_handled, new_location)
    THEN /\ location_log' = Append(location_log, LocationCall(new_location, FALSE))
         /\ UNCHANGED <<last_location_handled, location_handlers>>
    ELSE /\ last_location_handled' = new_location
         /\ location_handlers' =
               [location_handlers EXCEPT ![new_location] = @ + 1]
         /\ location_log' = Append(location_log, LocationCall(new_location, TRUE))

LocationEvents == Len(location_log) + Len(location_tasks)

\* SimulationOverrides.set_gps_location: a task is created for the call.
set_gps_location(location) ==
    /\ LocationEvents < MaxLocationEvents
    /\ location_tasks' = Append(location_tasks, location)
    /\ UNCHANGED <<last_location_handled, location_handlers, location_log>>

\* SimulationOverrides.clear_gps_override: the remembered location is
\* forgotten and a task is created for the location computed from the GPS.
clear_gps_override(location) ==
    /\ LocationEvents + 1 < MaxLocationEvents
    /\ last_location_handled' = NoLocation
    /\ location_tasks' = Append(location_tasks, location)
    /\ location_log' = Append(location_log, LocationReset)
    /\ UNCHANGED location_handlers

\* A created task starts: handle_location_change runs up to its first await.
LocationTaskRuns ==
    /\ location_tasks # <<>>
    /\ HandleLocationBegin(Head(location_tasks))
    /\ location_tasks' = Tail(location_tasks)

\* Step 3 of _check_and_respond.
MonitorLocation(location) ==
    /\ location \in {"away", "leaving"}
    /\ LocationEvents < MaxLocationEvents
    /\ HandleLocationBegin(location)
    /\ UNCHANGED location_tasks

LocationAlert(location) ==
    IF location \in {"away", "leaving", "arriving"}
    THEN <<VoiceEvent("voice_alert", "location")>>
    ELSE <<>>

\* The planner has answered a suspended call: the plan, or the rule table
\* when the planner failed, is executed, the user is told and the decision
\* is recorded.
LocationPlanned(location, result) ==
    /\ location_handlers[location] > 0
    /\ location_handlers' = [location_handlers EXCEPT ![location] = @ - 1]
    /\ LET r == IF result.error
                THEN _fallback_location_response(devices, priority_tier, patterns,
                                                 location)
                ELSE _execute_action_plan(devices, patterns, result.actions)
       IN /\ devices' = r.devices
          /\ lastRun' = RunRecord("location",
                                  IF result.error THEN <<>> ELSE result.actions,
                                  r, patterns)
                          @@ [location |-> location, planner_failed |-> result.error,
                              fallback |-> result.error]
    /\ voice_log' = voice_log \o LocationAlert(location)
    /\ alert_history' =
          IF LocationAlert(location) = <<>> THEN alert_history
          ELSE Append(alert_history, Alert("location", FALSE, "", dnd_active, TRUE))
    /\ decision_history' = Append(decision_history, LocationKey(location))
    /\ UNCHANGED <<priority_tier, last_location_handled, location_tasks, location_log,
                   pending_permissions, voice_runs, wait_for_impl,
                   threat_handler, last_threat_call>>

LocationInit ==
    /\ last_location_handled = NoLocation
    /\ location_tasks = <<>>
    /\ location_handlers = [l \in UserLocations |-> 0]
    /\ location_log = <<>>

(***************************************************************************)
(* The monitoring loop (OrchestratorAgent._monitoring_loop and             *)
(* _check_and_respond): one task that sleeps, then runs the threat check,  *)
(* the mode check and the location check, awaiting each handler.  `checks` *)
(* lists the checks begun in the current cycle.                            *)
(***************************************************************************)
MaxCycles == 2

AsleepMonitor == [pc |-> "sleep", cycle |-> 0, checks |-> <<>>, suggested |-> "normal"]

MonitorInit == monitor = AsleepMonitor

IdleCommand == [pc |-> "idle"]

CommandInit == command = IdleCommand

\* asyncio.sleep returns and _check_and_respond is called.
MonitorWakes ==
    /\ monitor.pc = "sleep"
    /\ monitor.cycle < MaxCycles
    /\ monitor' = [monitor EXCEPT !.pc = "threat", !.cycle = @ + 1, !.checks = <<>>]

\* Where the loop stands after calling a handler: inside it while it is
\* suspended, at the next check once it has returned.  The first variant
\* starts the handler without awaiting it.
NotAwaited(inside, next, returned) == next

Awaited(inside, next, returned) == IF returned THEN next ELSE inside

Begun(check, pc) == [monitor EXCEPT !.checks = Append(@, check), !.pc = pc]

\* Step 1 of _check_and_respond.
CheckThreat(assessment) ==
    /\ monitor.pc = "threat"
    /\ IF assessment.threat_level \in {"high", "critical"}
       THEN /\ HandleThreatBegin(assessment)
            /\ monitor' = Begun("threat",
                                Awaited("in_threat", "mode", threat_handler'.pc = "idle"))
       ELSE /\ monitor' = Begun("threat", "mode")
            /\ UNCHANGED <<deviceVars, lastRun, voiceVars, threatVars>>

\* _handle_threat returns to _check_and_respond.
ThreatReturns(result) ==
    /\ monitor.pc = "in_threat"
    /\ HandleThreatResume(result)
    /\ monitor' = [monitor EXCEPT !.pc = "mode"]

\* Step 2 of _check_and_respond.
CheckMode(suggested) ==
    /\ monitor.pc = "mode"
    /\ IF NoChange(suggested, current_home_mode)
       THEN /\ monitor' = [Begun("mode", "location") EXCEPT !.suggested = suggested]
            /\ UNCHANGED <<modeVars, decision_history>>
       ELSE /\ ModeTransitionBegin(suggested)
            /\ monitor' = [Begun("mode",
                                 Awaited("in_mode", "location", mode_handler'.pc = "idle"))
                             EXCEPT !.suggested = suggested]

\* _handle_calendar_context returns to _check_and_respond.
ModeReturns(result) ==
    /\ monitor.pc = "in_mode"
    /\ ModeTransitionPlanned(result)
    /\ monitor' = [monitor EXCEPT !.pc = "location"]

\* Step 3 of _check_and_respond.
CheckLocation(location) ==
    /\ monitor.pc = "location"
    /\ IF location \in {"away", "leaving"}
       THEN /\ MonitorLocation(location)
            /\ monitor' = Begun("location",
                                Awaited("in_location", "sleep",
                                        location_handlers' = location_handlers))
       ELSE /\ monitor' = Begun("location", "sleep")
            /\ UNCHANGED locationVars

\* handle_location_change returns to _check_and_respond.
LocationReturns(location, result) ==
    /\ monitor.pc = "in_location"
    /\ LocationPlanned(location, result)
    /\ monitor' = [monitor EXCEPT !.pc = "sleep"]

(***************************************************************************)
(* SpecExec: the plan executor under a changing pattern set.  The pattern  *)
(* set at start is what _load_persisted_patterns found in the store.       *)
(***************************************************************************)
ExecPlanActions ==
    {PlanAction("plug_kitchen_fridge", "off", EmptyParams),
     PlanAction("plug_living_tv", "off", EmptyParams),
     PlanAction("lock_front_door", "unlock", EmptyParams),
     PlanAction("", "off", EmptyParams)}

ExecPlans == SeqsUpTo(ExecPlanActions, MaxPlanLen)

P_never_unlock ==
    Pattern("user_defined", "global", "always", T_NEVER_UNLOCK, <<A_lock_unlock>>,
            TRUE, T_NEVER_UNLOCK)

P_whenever_dim ==
    Pattern("user_defined", "global", "always", T_whenever_dim, <<A_light_on>>,
            TRUE, T_whenever_dim)

P_never_off ==
    Pattern("energy", "global", "always", T_never_off, <<A_fridge_off, A_tv_off>>,
            FALSE, <<>>)

PersistedPatternSets ==
    {NoPatterns,
     (1 :> P_never_unlock),
     (1 :> P_whenever_dim),
     (1 :> P_never_off),
     (1 :> P_never_unlock) @@ (2 :> P_never_off)}

InitExec ==
    /\ DeviceInit
    /\ ModeInit
    /\ LocationInit
    /\ ThreatInit
    /\ MonitorInit
    /\ CommandInit
    /\ priority_tier \in TierConfigs
    /\ VoiceInit
    /\ wait_for_impl = "task_cancel"
    /\ patterns \in PersistedPatternSets
    /\ store = patterns
    /\ detached = NoPatterns
    /\ learns = [l \in LearnIds |-> IdleLearn]
    /\ nextPid = Cardinality(DOMAIN patterns)

NextExec ==
    \/ \E actions \in ExecPlans :
          RunPlan(actions) /\ UNCHANGED <<monitor, command, patternVars, voiceVars, threatVars, modeVars, locationVars>>
    \/ \E p \in DOMAIN patterns :
          approve_pattern(p) /\ UNCHANGED <<monitor, command, deviceVars, lastRun, voiceVars, threatVars, modeVars, locationVars>>
    \/ \E p \in DOMAIN patterns :
          dismiss_pattern(p) /\ UNCHANGED <<monitor, command, deviceVars, lastRun, voiceVars, threatVars, modeVars, locationVars>>

vars ==
    <<devices, priority_tier, patterns, store, detached, learns, nextPid, lastRun,
      pending_permissions, voice_runs, voice_log, alert_history, wait_for_impl,
      decision_history, threat_handler, last_threat_call,
      current_home_mode, pre_mode_device_snapshot, dnd_active, mode_handler,
      last_transition,
      last_location_handled, location_tasks, location_handlers, location_log,
      monitor, command>>

SpecExec == InitExec /\ [][NextExec]_vars

(***************************************************************************)
(* SpecPerm: permission requests, responses and timers on one event loop.  *)
(***************************************************************************)
InitPerm ==
    /\ DeviceInit
    /\ ModeInit
    /\ LocationInit
    /\ ThreatInit
    /\ MonitorInit
    /\ CommandInit
    /\ priority_tier = DefaultTiers
    /\ PatternInit
    /\ VoiceInit

otherThanVoice == <<monitor, command, deviceVars, lastRun, patternVars, threatVars, modeVars, locationVars>>

NextPerm ==
    \/ \E aid \in AlertIds, rp \in BOOLEAN :
          VoiceRun(aid, rp) /\ UNCHANGED otherThanVoice
    \/ \E aid \in AlertIds : VoiceRunFails(aid) /\ UNCHANGED otherThanVoice
    \/ \E aid \in AlertIds : VoiceAwaitPermission(aid) /\ UNCHANGED otherThanVoice
    \/ \E aid \in AlertIds, approved \in BOOLEAN :
          handle_permission_response(aid, approved) /\ UNCHANGED otherThanVoice
    \/ \E aid \in AlertIds : TimerFires(aid) /\ UNCHANGED otherThanVoice
    \/ \E aid \in AlertIds : WaiterResumes(aid) /\ UNCHANGED otherThanVoice
    \/ \E aid \in AlertIds : WaiterCancelled(aid) /\ UNCHANGED otherThanVoice

SpecPerm == InitPerm /\ [][NextPerm]_vars

\* The event loop runs every callback that is ready: the 60-second timer of
\* a suspended wait_for fires, and a call whose wait is over is resumed.
\* Nothing obliges a user to respond or the system to issue alerts.
FairPerm ==
    \A aid \in AlertIds :
        /\ WF_vars(TimerFires(aid) /\ UNCHANGED otherThanVoice)
        /\ WF_vars(WaiterResumes(aid) /\ UNCHANGED otherThanVoice)
        /\ WF_vars(WaiterCancelled(aid) /\ UNCHANGED otherThanVoice)

SpecPermLive == InitPerm /\ [][NextPerm]_vars /\ FairPerm

(***************************************************************************)
(* SpecThreat: the monitoring loop handling threats, with the permission   *)
(* handshake and user commands running on the same event loop.             *)
(***************************************************************************)
InitThreat ==
    /\ DeviceInit
    /\ ModeInit
    /\ LocationInit
    /\ priority_tier = DefaultTiers
    /\ PatternInit
    /\ VoiceInit
    /\ ThreatInit
    /\ MonitorInit
    /\ CommandInit

NextThreat ==
    \/ \E assessment \in Assessments : HandleThreatBegin(assessment) /\ UNCHANGED <<monitor, command, patternVars, modeVars, locationVars>>
    \/ \E result \in ThreatPlannerResults :
          HandleThreatResume(result) /\ UNCHANGED <<monitor, command, patternVars, modeVars, locationVars>>
    \/ \E actions \in UserPlans :
          UserCommand(actions) /\ UNCHANGED <<monitor, command, patternVars, voiceVars, modeVars, locationVars>>
    \/ \E aid \in AlertIds : VoiceRunFails(aid) /\ UNCHANGED otherThanVoice
    \/ \E aid \in AlertIds : VoiceAwaitPermission(aid) /\ UNCHANGED otherThanVoice
    \/ \E aid \in DOMAIN pending_permissions, approved \in BOOLEAN :
          handle_permission_response(aid, approved) /\ UNCHANGED otherThanVoice
    \/ \E aid \in AlertIds : TimerFires(aid) /\ UNCHANGED otherThanVoice
    \/ \E aid \in AlertIds : WaiterResumes(aid) /\ UNCHANGED otherThanVoice
    \/ \E aid \in AlertIds : WaiterCancelled(aid) /\ UNCHANGED otherThanVoice

SpecThreat == InitThreat /\ [][NextThreat]_vars

(***************************************************************************)
(* SpecPattern: learn_user_preference calls in flight together with        *)
(* approve and dismiss requests, from a pattern set loaded from the store. *)
(***************************************************************************)
InitPattern ==
    /\ DeviceInit
    /\ ModeInit
    /\ LocationInit
    /\ priority_tier = DefaultTiers
    /\ VoiceInit
    /\ wait_for_impl = "task_cancel"
    /\ ThreatInit
    /\ MonitorInit
    /\ CommandInit
    /\ patterns \in {NoPatterns, (1 :> P_never_unlock) @@ (2 :> P_never_off)}
    /\ store = patterns
    /\ detached = NoPatterns
    /\ learns = [l \in LearnIds |-> IdleLearn]
    /\ nextPid = Cardinality(DOMAIN patterns)

otherThanPatterns == <<monitor, command, deviceVars, lastRun, voiceVars, threatVars, modeVars, locationVars>>

NextPattern ==
    \/ \E l \in LearnIds, msg \in Utterances :
          LearnStart(l, msg) /\ UNCHANGED otherThanPatterns
    \/ \E l \in LearnIds, result \in ParseResults :
          LearnParsed(l, result) /\ UNCHANGED otherThanPatterns
    \/ \E l \in LearnIds, result \in MergeResults :
          LearnMerged(l, result) /\ UNCHANGED otherThanPatterns
    \/ \E l \in LearnIds : LearnPersisted(l) /\ UNCHANGED otherThanPatterns
    \/ \E p \in DOMAIN patterns : approve_pattern(p) /\ UNCHANGED otherThanPatterns
    \/ \E p \in DOMAIN patterns : dismiss_pattern(p) /\ UNCHANGED otherThanPatterns

SpecPattern == InitPattern /\ [][NextPattern]_vars

(***************************************************************************)
(* SpecMode: calendar-driven mode transitions with user commands running   *)
(* on the same event loop.  The pattern set is the one loaded from the     *)
(* store: an approved global prohibition on switching the plugs off, with  *)
(* or without one on switching the living-room light off.                  *)
(***************************************************************************)
P_never_off_approved == [P_never_off EXCEPT !.approved = TRUE]

A_light_off == PatternAction("light_living_main", "off", EmptyParams)

P_never_light_off ==
    Pattern("user_defined", "global", "always", T_never_off, <<A_light_off>>,
            TRUE, T_never_off)

P_meeting_light ==
    Pattern("user_defined", "calendar_mode", "do_not_disturb", T_meeting_light,
            <<A_light_on>>, TRUE, T_meeting_light)

ModePatternSets ==
    {(1 :> P_never_off_approved),
     (1 :> P_never_off_approved) @@ (2 :> P_never_light_off) @@ (3 :> P_meeting_light)}

\* OrchestratorAgent.run when the planner is unavailable: chat_json returns
\* {"error": ...} and run returns {"success": False, "error": ...} without
\* executing anything; a command typed as text gets no voice feedback.
UserCommandPlannerFails(source) ==
    /\ source = "text"
    /\ lastRun' = RunRecord("command", <<>>, ExecResult(devices), patterns)
                    @@ [planner_failed |-> TRUE, fallback |-> FALSE]
    /\ UNCHANGED <<devices, priority_tier, decision_history, threat_handler,
                   last_threat_call>>

ModeUserPlans ==
    {<<PatternAction("light_living_main", "on", [brightness |-> 80])>>,
     <<PatternAction("plug_kitchen_fridge", "on", EmptyParams)>>,
     <<PatternAction("plug_living_tv", "on", EmptyParams)>>}

InitMode ==
    /\ DeviceInit
    /\ ModeInit
    /\ LocationInit
    /\ priority_tier = DefaultTiers
    /\ VoiceInit
    /\ wait_for_impl = "task_cancel"
    /\ ThreatInit
    /\ MonitorInit
    /\ CommandInit
    /\ patterns \in ModePatternSets
    /\ store = patterns
    /\ detached = NoPatterns
    /\ learns = [l \in LearnIds |-> IdleLearn]
    /\ nextPid = Cardinality(DOMAIN patterns)

NextMode ==
    \/ \E suggested \in Modes :
          ModeTransitionBegin(suggested)
            /\ UNCHANGED <<monitor, command, deviceVars, lastRun, patternVars, voiceVars,
                           threat_handler, last_threat_call, locationVars>>
    \/ \E result \in ModePlannerResults :
          ModeTransitionPlanned(result)
            /\ UNCHANGED <<monitor, command, patternVars, threat_handler, last_threat_call, locationVars>>
    \/ \E actions \in ModeUserPlans :
          /\ Len(decision_history) < MaxModeSteps
          /\ UserCommand(actions)
          /\ UNCHANGED <<monitor, command, patternVars, voiceVars, modeVars, locationVars>>
    \/ \E source \in {"text"} :
          UserCommandPlannerFails(source)
            /\ UNCHANGED <<monitor, command, patternVars, voiceVars, modeVars, locationVars>>

SpecMode == InitMode /\ [][NextMode]_vars

(***************************************************************************)
(* SpecLocation: location changes reported by the monitoring loop and by   *)
(* the GPS overrides, with the planner answering in any order.             *)
(***************************************************************************)
otherThanLocation == <<monitor, command, patternVars, modeVars>>

\* The locations reported in this specification; `leaving` takes the same
\* branches as `away` everywhere.
ReportedLocations == {"home", "away", "arriving"}

InitLocation ==
    /\ DeviceInit
    /\ ModeInit
    /\ LocationInit
    /\ priority_tier = DefaultTiers
    /\ VoiceInit
    /\ wait_for_impl = "task_cancel"
    /\ ThreatInit
    /\ MonitorInit
    /\ CommandInit
    /\ patterns = (1 :> P_never_off_approved) @@ (2 :> P_never_light_off)
    /\ store = patterns
    /\ detached = NoPatterns
    /\ learns = [l \in LearnIds |-> IdleLearn]
    /\ nextPid = Cardinality(DOMAIN patterns)

NextLocation ==
    \/ \E location \in ReportedLocations :
          set_gps_location(location)
            /\ UNCHANGED <<monitor, command, deviceVars, lastRun, voiceVars, threatVars, otherThanLocation>>
    \/ \E location \in {"home"} :
          clear_gps_override(location)
            /\ UNCHANGED <<monitor, command, deviceVars, lastRun, voiceVars, threatVars, otherThanLocation>>
    \/ LocationTaskRuns
         /\ UNCHANGED <<monitor, command, deviceVars, lastRun, voiceVars, threatVars, otherThanLocation>>
    \/ \E location \in ReportedLocations :
          MonitorLocation(location)
            /\ UNCHANGED <<monitor, command, deviceVars, lastRun, voiceVars, threatVars, otherThanLocation>>
    \/ \E location \in ReportedLocations, result \in LocationPlannerResults :
          LocationPlanned(location, result) /\ UNCHANGED otherThanLocation

SpecLocation == InitLocation /\ [][NextLocation]_vars

(***************************************************************************)
(* SpecPlan: plans whose actions fail in every way the executor handles:   *)
(* an invalid action, a blocked one, an unknown device, an action the      *)
(* device refuses, and a collaborator that raises at one position.         *)
(***************************************************************************)
PlanFaultActions ==
    {PlanAction("", "off", EmptyParams),
     PlanAction("plug_living_tv", "off", EmptyParams),
     PlanAction("light_office_main", "on", EmptyParams),
     PlanAction("plug_living_tv", "toggle", EmptyParams),
     PlanAction("plug_living_tv", "on", EmptyParams)}

FaultPlans == SeqsUpTo(PlanFaultActions, MaxPlanLen)

\* _execute_action_plan on a plan, the collaborator raising at the
\* positions in `fails`.
RunPlanWithFailures(actions, fails) ==
    LET r == ExecutePlanWithFailures(devices, patterns, actions, fails)
    IN /\ devices' = r.devices
       /\ lastRun' = RunRecord("plan", actions, r, patterns)
       /\ UNCHANGED <<priority_tier>>

InitPlan ==
    /\ DeviceInit
    /\ ModeInit
    /\ LocationInit
    /\ priority_tier = DefaultTiers
    /\ VoiceInit
    /\ wait_for_impl = "task_cancel"
    /\ ThreatInit
    /\ MonitorInit
    /\ CommandInit
    /\ patterns \in {NoPatterns, (1 :> P_never_off_approved)}
    /\ store = patterns
    /\ detached = NoPatterns
    /\ learns = [l \in LearnIds |-> IdleLearn]
    /\ nextPid = Cardinality(DOMAIN patterns)

NextPlan ==
    \E actions \in FaultPlans :
        \E fails \in {{}} \cup {{i} : i \in 1..Len(actions)} :
            RunPlanWithFailures(actions, fails)
              /\ UNCHANGED <<monitor, command, patternVars, voiceVars, threatVars, modeVars, locationVars>>

SpecPlan == InitPlan /\ [][NextPlan]_vars

(***************************************************************************)
(* Specification of the prohibition classifier: one approved global        *)
(* pattern whose description and source utterance are drawn from a set of  *)
(* texts, and plans run under it.  An empty text stands for a missing      *)
(* (None) field, which the classifier reads as "".                         *)
(***************************************************************************)
T_EMPTY == <<>>

T_to_do == <<"t","o"," ","d","o">>

T_Not_now == <<"N","o","t"," ","n","o","w">>

T_DONT == <<"D","O","N","'","T">>

T_blocked == <<"b","l","o","c","k","e","d">>

ClassifyTexts ==
    {T_EMPTY, T_NEVER_UNLOCK, T_whenever_dim, T_movie_on, T_to_do, T_Not_now,
     T_DONT, T_blocked}

ClassifyPlans == {<<A_tv_on>>, <<A_light_on>>, <<A_tv_on, A_light_on>>}

InitClassify ==
    /\ DeviceInit
    /\ ModeInit
    /\ LocationInit
    /\ priority_tier = DefaultTiers
    /\ VoiceInit
    /\ wait_for_impl = "task_cancel"
    /\ ThreatInit
    /\ MonitorInit
    /\ CommandInit
    /\ \E description \in ClassifyTexts, source_utterance \in ClassifyTexts :
          patterns = (1 :> Pattern("user_defined", "global", "always", description,
                                   <<A_tv_on>>, TRUE, source_utterance))
    /\ store = patterns
    /\ detached = NoPatterns
    /\ learns = [l \in LearnIds |-> IdleLearn]
    /\ nextPid = 1

NextClassify ==
    \E actions \in ClassifyPlans :
        RunPlan(actions) /\ UNCHANGED <<monitor, command, patternVars, voiceVars, threatVars, modeVars, locationVars>>

SpecClassify == InitClassify /\ [][NextClassify]_vars

(***************************************************************************)
(* Specification of repeated actions: plans that send one action once or   *)
(* twice in succession, over every device type and every action the        *)
(* planner prompts and the fallback tables name.                           *)
(***************************************************************************)
RepeatActions ==
    {PlanAction("light_living_main", "on", [brightness |-> 80]),
     PlanAction("light_living_main", "off", EmptyParams),
     PlanAction("light_living_main", "dim", [brightness |-> 30]),
     PlanAction("plug_living_tv", "on", EmptyParams),
     PlanAction("plug_living_tv", "off", EmptyParams),
     PlanAction("lock_front_door", "lock", EmptyParams),
     PlanAction("lock_front_door", "unlock", EmptyParams),
     PlanAction("thermostat_living", "set_temperature", [temperature |-> 68]),
     PlanAction("thermostat_living", "set_mode", [mode |-> "cool"]),
     PlanAction("thermostat_living", "eco_mode", EmptyParams),
     PlanAction("battery_main", "set_mode", [mode |-> "backup"]),
     PlanAction("battery_main", "charge", EmptyParams)}

RepeatPlans == {<<a>> : a \in RepeatActions} \cup {<<a, a>> : a \in RepeatActions}

InitRepeat ==
    /\ DeviceInit
    /\ ModeInit
    /\ LocationInit
    /\ priority_tier = DefaultTiers
    /\ VoiceInit
    /\ wait_for_impl = "task_cancel"
    /\ ThreatInit
    /\ MonitorInit
    /\ CommandInit
    /\ PatternInit

NextRepeat ==
    \E actions \in RepeatPlans :
        RunPlan(actions) /\ UNCHANGED <<monitor, command, patternVars, voiceVars, threatVars, modeVars, locationVars>>

SpecRepeat == InitRepeat /\ [][NextRepeat]_vars

(***************************************************************************)
(* Specification of the constraint derivation: preferences are learned,    *)
(* patterns approved and dismissed, and plans run in between.              *)
(***************************************************************************)
DerivePlans == {<<A_lock_unlock>>, <<A_tv_off, A_lock_unlock>>}

DeriveParseResults ==
    {Parsed("global", "always", T_NEVER_UNLOCK, <<A_lock_unlock>>),
     Parsed("global", "always", T_never_off, <<A_fridge_off>>)}

DeriveMergeResults == {Merged(T_NEVER_UNLOCK, <<A_lock_unlock, A_tv_off>>)}

InitDerive ==
    /\ DeviceInit
    /\ ModeInit
    /\ LocationInit
    /\ priority_tier = DefaultTiers
    /\ VoiceInit
    /\ wait_for_impl = "task_cancel"
    /\ ThreatInit
    /\ MonitorInit
    /\ CommandInit
    /\ patterns \in {NoPatterns, (1 :> P_never_off)}
    /\ store = patterns
    /\ detached = NoPatterns
    /\ learns = [l \in LearnIds |-> IdleLearn]
    /\ nextPid = Cardinality(DOMAIN patterns)

NextDerive ==
    \/ \E actions \in DerivePlans :
          RunPlan(actions) /\ UNCHANGED <<monitor, command, patternVars, voiceVars, threatVars, modeVars, locationVars>>
    \/ \E l \in LearnIds : LearnStart(l, T_DONT) /\ UNCHANGED otherThanPatterns
    \/ \E l \in LearnIds, result \in DeriveParseResults :
          LearnParsed(l, result) /\ UNCHANGED otherThanPatterns
    \/ \E l \in LearnIds, result \in DeriveMergeResults :
          LearnMerged(l, result) /\ UNCHANGED otherThanPatterns
    \/ \E l \in LearnIds : LearnPersisted(l) /\ UNCHANGED otherThanPatterns
    \/ \E p \in DOMAIN patterns : approve_pattern(p) /\ UNCHANGED otherThanPatterns
    \/ \E p \in DOMAIN patterns : dismiss_pattern(p) /\ UNCHANGED otherThanPatterns

SpecDerive == InitDerive /\ [][NextDerive]_vars

(***************************************************************************)
(* Specification of the calendar-driven mode changes alone: the monitoring *)
(* loop sees a suggested mode, plans and completes the transition.         *)
(***************************************************************************)
CalendarModes == {"normal", "sleep", "do_not_disturb", "focus"}

InitCalendar ==
    /\ DeviceInit
    /\ ModeInit
    /\ LocationInit
    /\ priority_tier = DefaultTiers
    /\ VoiceInit
    /\ wait_for_impl = "task_cancel"
    /\ ThreatInit
    /\ MonitorInit
    /\ CommandInit
    /\ PatternInit

NextCalendar ==
    \/ \E suggested \in CalendarModes :
          ModeTransitionBegin(suggested)
            /\ UNCHANGED <<monitor, command, deviceVars, lastRun, patternVars, voiceVars,
                           threat_handler, last_threat_call, locationVars>>
    \/ \E result \in ModePlannerResults :
          ModeTransitionPlanned(result)
            /\ UNCHANGED <<monitor, command, patternVars, threat_handler, last_threat_call, locationVars>>

SpecCalendar == InitCalendar /\ [][NextCalendar]_vars

(***************************************************************************)
(* SpecMonitor: whole monitoring cycles, with the permission handshake of  *)
(* the voice agent running on the same event loop.                         *)
(***************************************************************************)
MonitorAssessments ==
    [threat_type : {"heat_wave"}, threat_level : {"low", "high"}]

MonitorLocations == {"home", "away"}

InitMonitor ==
    /\ DeviceInit
    /\ ModeInit
    /\ LocationInit
    /\ priority_tier = DefaultTiers
    /\ VoiceInit
    /\ wait_for_impl = "task_cancel"
    /\ ThreatInit
    /\ MonitorInit
    /\ CommandInit
    /\ patterns = (1 :> P_never_off_approved)
    /\ store = patterns
    /\ detached = NoPatterns
    /\ learns = [l \in LearnIds |-> IdleLearn]
    /\ nextPid = Cardinality(DOMAIN patterns)

NextMonitor ==
    \/ MonitorWakes
         /\ UNCHANGED <<command, deviceVars, lastRun, patternVars, voiceVars, threatVars,
                        modeVars, locationVars>>
    \/ \E assessment \in MonitorAssessments :
          CheckThreat(assessment)
            /\ UNCHANGED <<command, patternVars, modeVars, locationVars>>
    \/ \E result \in {PlannerError} :
          ThreatReturns(result)
            /\ UNCHANGED <<command, patternVars, modeVars, locationVars>>
    \/ \E suggested \in {"normal", "sleep"} :
          CheckMode(suggested)
            /\ UNCHANGED <<command, deviceVars, lastRun, patternVars, voiceVars,
                           threat_handler, last_threat_call, locationVars>>
    \/ \E result \in {PlannerError} :
          ModeReturns(result)
            /\ UNCHANGED <<command, patternVars, threat_handler, last_threat_call, locationVars>>
    \/ \E location \in MonitorLocations :
          CheckLocation(location)
            /\ UNCHANGED <<command, deviceVars, lastRun, patternVars, voiceVars, threatVars,
                           modeVars>>
    \/ \E location \in MonitorLocations, result \in {PlannerError} :
          LocationReturns(location, result) /\ UNCHANGED <<command, patternVars, modeVars>>
    \/ \E aid \in AlertIds :
          VoiceAwaitPermission(aid)
            /\ UNCHANGED <<monitor, command, deviceVars, lastRun, patternVars, threatVars,
                           modeVars, locationVars>>
    \/ \E aid \in DOMAIN pending_permissions, approved \in BOOLEAN :
          handle_permission_response(aid, approved)
            /\ UNCHANGED <<monitor, command, deviceVars, lastRun, patternVars, threatVars,
                           modeVars, locationVars>>
    \/ \E aid \in AlertIds :
          TimerFires(aid)
            /\ UNCHANGED <<monitor, command, deviceVars, lastRun, patternVars, threatVars,
                           modeVars, locationVars>>
    \/ \E aid \in AlertIds :
          WaiterResumes(aid)
            /\ UNCHANGED <<monitor, command, deviceVars, lastRun, patternVars, threatVars,
                           modeVars, locationVars>>

SpecMonitor == InitMonitor /\ [][NextMonitor]_vars

(***************************************************************************)
(* SpecVoice: alerts raised while the calendar switches do-not-disturb on  *)
(* and off, with any permission flag, threat level and speech-service      *)
(* outcome, up to the registration of the permission request.              *)
(***************************************************************************)
VoiceModes == {"normal", "do_not_disturb"}

VoiceThreatLevels == {"", "medium", "high"}

InitVoice ==
    /\ DeviceInit
    /\ ModeInit
    /\ LocationInit
    /\ priority_tier = DefaultTiers
    /\ VoiceInit
    /\ wait_for_impl = "task_cancel"
    /\ ThreatInit
    /\ MonitorInit
    /\ CommandInit
    /\ PatternInit

NextVoice ==
    \/ \E suggested \in VoiceModes :
          ModeTransitionBegin(suggested)
            /\ UNCHANGED <<monitor, command, deviceVars, lastRun, patternVars, voiceVars,
                           threat_handler, last_threat_call, locationVars>>
    \/ \E result \in {Planned(<<>>)} :
          ModeTransitionPlanned(result)
            /\ UNCHANGED <<monitor, command, patternVars, threat_handler, last_threat_call,
                           locationVars>>
    \/ \E aid \in AlertIds, rp \in BOOLEAN, level \in VoiceThreatLevels,
          tts_ok \in BOOLEAN :
          VoiceRunWith(aid, rp, level, tts_ok) /\ UNCHANGED otherThanVoice
    \/ \E aid \in AlertIds : VoiceAwaitPermission(aid) /\ UNCHANGED otherThanVoice

SpecVoice == InitVoice /\ [][NextVoice]_vars

(***************************************************************************)
(* Properties of the plan executor.                                        *)
(***************************************************************************)
RunActions == {lastRun.actions[i] : i \in 1..Len(lastRun.actions)}

\* (d, a) is listed by an approved global pattern of `pats` that is
\* classified as a prohibition.
ProhibitedBy(pats, a) ==
    \E p \in DOMAIN pats :
        /\ pats[p].approved
        /\ pats[p].trigger_type = "global"
        /\ _is_prohibition_pattern(pats[p])
        /\ \E i \in 1..Len(pats[p].action_sequence) :
              /\ pats[p].action_sequence[i].device_id = a.device_id
              /\ pats[p].action_sequence[i].action = a.action

\* C1: in every plan run, an `off` on a device whose priority_tier is
\* critical is never sent to the device collaborator, is never in
\* `executed`, and is in `failed` as "BLOCKED (critical device)".
C1_CriticalOffNeverSent ==
    \A a \in RunActions :
        (a.device_id \in get_critical_device_ids(priority_tier) /\ a.action = "off")
        => /\ a \notin SeqRange(lastRun.calls)
           /\ a \notin SeqRange(lastRun.executed)
           /\ FailedEntry(a, BLOCKED_CRITICAL) \in SeqRange(lastRun.failed)

\* C2 as stated: every action of a plan that an approved global prohibition
\* pattern lists is rejected as "BLOCKED (user constraint)" and is not sent
\* to the device collaborator.
C2_ProhibitedIsUserConstraint ==
    \A a \in RunActions :
        ProhibitedBy(lastRun.patterns, a)
        => /\ a \notin SeqRange(lastRun.calls)
           /\ FailedEntry(a, BLOCKED_USER) \in SeqRange(lastRun.failed)

\* C2 amended: every action of a plan that an approved global prohibition
\* pattern lists is rejected without a call to the device collaborator; its
\* `failed` entry is "BLOCKED (user constraint)", except for an `off` on the
\* hard-protected plug_kitchen_fridge, whose entry is "BLOCKED (critical
\* device)" because that check runs first.
C2_ProhibitedIsRejected ==
    \A a \in RunActions :
        ProhibitedBy(lastRun.patterns, a)
        => /\ a \notin SeqRange(lastRun.calls)
           /\ a \notin SeqRange(lastRun.executed)
           /\ FailedEntry(a, IF a.device_id \in _PROTECTED_DEVICE_IDS /\ a.action = "off"
                             THEN BLOCKED_CRITICAL ELSE BLOCKED_USER)
                 \in SeqRange(lastRun.failed)

C2_Witness ==
    \E a \in RunActions :
        /\ a.device_id = "lock_front_door" /\ a.action = "unlock"
        /\ ProhibitedBy(lastRun.patterns, a)
        /\ FailedEntry(a, BLOCKED_USER) \in SeqRange(lastRun.failed)
        /\ lastRun.executed # <<>>

(***************************************************************************)
(* Properties of the permission handshake.                                 *)
(***************************************************************************)
LogIndexes(kind, aid) ==
    {i \in 1..Len(voice_log) : voice_log[i].kind = kind /\ voice_log[i].alert_id = aid}

AcceptedResponses(aid) ==
    {i \in LogIndexes("response", aid) : voice_log[i].returned = "True"}

\* C3: for every interleaving of responses and the timer on one alert id,
\* at most one of them resolves the wait, exactly one once the request has
\* returned, and every other response returns false without raising.
C3_ExactlyOneResolves ==
    \A aid \in AlertIds :
        LET resolvers == Cardinality(AcceptedResponses(aid))
                         + Cardinality(LogIndexes("voice_alert_timeout", aid))
        IN /\ resolvers <= 1
           /\ LogIndexes("run_returned", aid) # {} => resolvers = 1
           /\ \A i \in LogIndexes("response", aid) \ AcceptedResponses(aid) :
                 voice_log[i].returned = "False"

\* The request for `aid` has resolved by timeout.
ResolvedByTimeout(aid) == LogIndexes("voice_alert_timeout", aid) # {}

C4_State ==
    \A aid \in AlertIds :
        /\ ResolvedByTimeout(aid) =>
              /\ voice_runs[aid].pc = "returned"
              /\ ~voice_runs[aid].result.approved
              /\ voice_runs[aid].result.timeout
              /\ aid \notin DOMAIN pending_permissions
              /\ Cardinality(LogIndexes("voice_alert_timeout", aid)) = 1
              /\ Cardinality(LogIndexes("run_returned", aid)) = 1
              /\ \A t \in LogIndexes("voice_alert_timeout", aid) :
                    \A i \in LogIndexes("response", aid) :
                        i > t => voice_log[i].returned = "False"
        /\ (LogIndexes("run_returned", aid) # {} /\ AcceptedResponses(aid) = {})
              => ResolvedByTimeout(aid)

C4_Step ==
    \A aid \in AlertIds :
        (ResolvedByTimeout(aid)
           /\ Len(voice_log') > Len(voice_log)
           /\ voice_log'[Len(voice_log')].kind = "response"
           /\ voice_log'[Len(voice_log')].alert_id = aid)
        => /\ UNCHANGED <<pending_permissions, voice_runs>>
           /\ voice_log' = Append(voice_log, voice_log'[Len(voice_log')])

\* C4: a permission request that no response resolved returns through the
\* timeout: exactly once, with approved=false and the timeout marker, its
\* pending entry removed and one timeout notification broadcast; a response
\* that arrives after the request has resolved that way returns false and
\* changes nothing.
C4_TimeoutResolvesOnce == []C4_State /\ [][C4_Step]_vars

C4_Witness ==
    \E aid \in AlertIds :
        /\ ResolvedByTimeout(aid)
        /\ \E t \in LogIndexes("voice_alert_timeout", aid) :
              \E i \in LogIndexes("response", aid) : i > t

(***************************************************************************)
(* Properties of threat handling.                                          *)
(***************************************************************************)
\* The handshake under alert `aid` has returned approved, on an approving
\* response.
HandshakeApproved(aid) ==
    /\ voice_runs[aid].pc = "returned"
    /\ voice_runs[aid].require_permission
    /\ voice_runs[aid].result.approved
    /\ \E i \in AcceptedResponses(aid) : voice_log[i].approved

C5_State ==
    lastRun.origin = "threat" => HandshakeApproved(lastRun.alert_id)

C5_Step ==
    /\ (lastRun' # lastRun /\ lastRun'.origin = "threat")
          => /\ threat_handler.pc = "voice"
             /\ lastRun'.alert_id = threat_handler.alert_id
             /\ HandshakeApproved(threat_handler.alert_id)
    /\ (threat_handler.pc = "voice" /\ ~HandshakeApproved(threat_handler.alert_id))
          => /\ devices' # devices => lastRun'.origin = "plan"
             /\ lastRun' # lastRun => lastRun'.origin = "plan"

\* C5: for a threat of level high or critical, the threat response issues
\* device commands only once the permission handshake has returned
\* approved=true; while it has not, and when it was denied, timed out or
\* failed, the threat handler issues no device command.
C5_NoActionBeforeApproval == []C5_State /\ [][C5_Step]_vars

C5_Witness ==
    /\ lastRun.origin = "threat"
    /\ lastRun.calls # <<>>
    /\ \E aid \in AlertIds :
          /\ voice_runs[aid].pc = "returned"
          /\ ~voice_runs[aid].result.approved
          /\ ThreatKey([threat_type |-> "heat_wave", threat_level |-> "high"])
                \in SeqRange(decision_history)

\* The key is among the last 5 records of history h.
InLastFive(key, h) == \E i \in 1..Len(h) : i > Len(h) - 5 /\ h[i] = key

C6_State ==
    /\ last_threat_call # NoThreatCall =>
          (last_threat_call.skipped
             <=> InLastFive(last_threat_call.key, last_threat_call.history))
    /\ \A i, j \in 1..Len(decision_history) :
          (i < j /\ decision_history[i].kind = "threat"
                 /\ decision_history[i] = decision_history[j]) => j - i > 5

C6_Step ==
    /\ (last_threat_call' # last_threat_call /\ last_threat_call'.skipped)
          => UNCHANGED <<voiceVars, devices, lastRun, decision_history, threat_handler>>
    /\ (last_threat_call' # last_threat_call /\ ~last_threat_call'.skipped)
          => /\ threat_handler'.pc = "voice"
             /\ voice_log' = Append(voice_log,
                                    VoiceEvent("voice_alert", threat_handler'.alert_id))
    /\ (threat_handler.pc = "voice" /\ threat_handler'.pc = "idle")
          => decision_history' =
                Append(decision_history, ThreatKey(threat_handler.assessment))

\* C6: a call of the threat handler is skipped, with no alert, no
\* permission request, no plan and no new record, exactly when the threat's
\* key (type and level) is among the last 5 decision records of any kind;
\* every handled threat appends its record whatever the handshake returned;
\* so two records of one threat key are more than 5 records apart.
C6_SkippedIffRecent == []C6_State /\ [][C6_Step]_vars

C6_Witness ==
    /\ last_threat_call # NoThreatCall
    /\ last_threat_call.skipped
    /\ Len(last_threat_call.history) >= 5
    /\ last_threat_call.history[Len(last_threat_call.history) - 4] = last_threat_call.key
    /\ NoKey \in SeqRange(last_threat_call.history)

(***************************************************************************)
(* Properties of the pattern engine.                                       *)
(***************************************************************************)
SameTrigger(p, q) ==
    /\ p.trigger_type = q.trigger_type
    /\ p.trigger_value = q.trigger_value

UserDefined(pats) == {p \in DOMAIN pats : pats[p].pattern_type = "user_defined"}

C7_State ==
    \A p, q \in UserDefined(patterns) :
        SameTrigger(patterns[p], patterns[q]) => p = q

C7_Step ==
    \A n \in DOMAIN patterns' \ DOMAIN patterns :
        /\ DOMAIN patterns' = DOMAIN patterns \cup {n}
        /\ \A p \in UserDefined(patterns) : ~SameTrigger(patterns[p], patterns'[n])

\* C7: under every interleaving of learn, approve and dismiss, the pattern
\* set holds at most one user_defined pattern per (trigger type, trigger
\* value), and a learn adds a pattern only if no user_defined pattern with
\* the parsed trigger exists: otherwise it merges into that one.
C7_OneUserPatternPerTrigger == []C7_State /\ [][C7_Step]_vars

C7_Witness ==
    /\ Cardinality(UserDefined(patterns)) >= 2
    /\ \E p \in UserDefined(patterns) :
          /\ "|" \in SeqRange(patterns[p].source_utterance)
          /\ Len(patterns[p].action_sequence) >= 2
    /\ \E l \in LearnIds : learns[l].pc = "returned" /\ learns[l].success

(***************************************************************************)
(* Properties of the home-mode state machine.                              *)
(***************************************************************************)
Lights == {d \in DeviceIds : device_type[d] = "light"}

ReturnedToNormal ==
    /\ last_transition.new_mode = "normal"
    /\ last_transition.snapshot.held

\* C8: a light that was on with brightness b when the mode left normal and
\* that the excursion has turned off is on with brightness exactly b once
\* the mode is back to normal, whatever the planner answered.
C8_LightRestoredExactly ==
    ReturnedToNormal =>
        \A d \in Lights :
            (/\ last_transition.snapshot.states[d].power
             /\ ~last_transition.before[d].power)
            => /\ last_transition.after[d].power
               /\ last_transition.after[d].properties.brightness =
                     last_transition.snapshot.states[d].properties.brightness

\* C9: every transition to normal runs Restore when a snapshot is held and
\* applies the comfort defaults otherwise, and no snapshot is held once the
\* transition has completed.
C9_RestoreOrDefaults ==
    /\ last_transition.new_mode = "normal" =>
          IF last_transition.snapshot.held
          THEN last_transition.restored
          ELSE last_transition.defaults
    /\ (mode_handler.pc = "idle" /\ current_home_mode = "normal")
          => ~pre_mode_device_snapshot.held

\* C10: no command issued by Restore switches a protected device off or
\* performs a (device, action) blocked by an approved global prohibition.
C10_RestoreIsFiltered ==
    last_transition.new_mode = "normal" =>
        \A i \in 1..Len(last_transition.restore_calls) :
            ~_is_action_blocked(last_transition.restore_calls[i].device_id,
                                last_transition.restore_calls[i].action,
                                _get_blocked_actions_from_patterns(patterns))

\* C11: no command sent by a fallback rule table (threat, mode transition,
\* location) is an `off` on a protected device or a (device, action) that
\* the constraint set in force blocks.
C11_FallbackCommandsFiltered ==
    lastRun.origin \in {"threat", "mode", "location"} =>
        \A i \in 1..Len(lastRun.calls) :
            ~_is_action_blocked(lastRun.calls[i].device_id, lastRun.calls[i].action,
                                _get_blocked_actions_from_patterns(lastRun.patterns))

(***************************************************************************)
(* Properties of the location handling.                                    *)
(***************************************************************************)
IsLocationCall(e) == e.kind = "call"

LocationCalls == SelectSeq(location_log, IsLocationCall)

\* C12 as stated: over the sequence of calls of handle_location_change, a
\* call is handled exactly when it is the first one or its location differs
\* from the location of the call before it (once per maximal run of equal
\* consecutive values).
C12_HandledOncePerRun ==
    \A i \in 1..Len(LocationCalls) :
        LocationCalls[i].handled
        <=> (i = 1 \/ LocationCalls[i - 1].location # LocationCalls[i].location)

C12_State ==
    \A i \in 1..Len(location_log) :
        IsLocationCall(location_log[i]) =>
            (location_log[i].handled
             <=> \/ i = 1
                 \/ ~IsLocationCall(location_log[i - 1])
                 \/ location_log[i - 1].location # location_log[i].location)

C12_Step ==
    (/\ Len(location_log') = Len(location_log) + 1
     /\ IsLocationCall(location_log'[Len(location_log')])
     /\ ~location_log'[Len(location_log')].handled)
    => UNCHANGED <<devices, lastRun, decision_history, voice_log,
                   last_location_handled, location_handlers>>

\* C12 amended: a call of handle_location_change is handled exactly when it
\* is the first one, or it follows a reset of the remembered location by
\* clear_gps_override, or its location differs from the location of the call
\* before it; a call that is not handled changes nothing.
C12_HandledUnlessRemembered == []C12_State /\ [][C12_Step]_vars

C12_Witness ==
    /\ \E i \in 1..Len(location_log) :
          IsLocationCall(location_log[i]) /\ ~location_log[i].handled
    /\ \E i \in 1..(Len(location_log) - 2) :
          /\ \A j \in i..(i + 2) : location_log[j].handled
          /\ location_log[i].location = location_log[i + 2].location
          /\ location_log[i].location # location_log[i + 1].location
    /\ \E l, m \in UserLocations :
          l # m /\ location_handlers[l] > 0 /\ location_handlers[m] > 0

(***************************************************************************)
(* Properties of the plan executor under failures.                         *)
(***************************************************************************)
\* `executed` and the actions of `failed` split `actions` into two
\* subsequences that keep the order of the plan.
RECURSIVE IsOrderedSplit(_, _, _)
IsOrderedSplit(actions, executed, failed) ==
    IF actions = <<>>
    THEN executed = <<>> /\ failed = <<>>
    ELSE \/ /\ executed # <<>>
            /\ Head(executed) = Head(actions)
            /\ IsOrderedSplit(Tail(actions), Tail(executed), failed)
         \/ /\ failed # <<>>
            /\ Head(failed).device_id = Head(actions).device_id
            /\ Head(failed).action = Head(actions).action
            /\ IsOrderedSplit(Tail(actions), executed, Tail(failed))

\* C13: the executor handles every action of a plan, in order: each action
\* has exactly one entry in `executed` or in `failed`, whether it is
\* invalid, blocked, for an unknown device, refused by the device or the
\* collaborator raises.
C13_EveryActionAccounted ==
    lastRun.origin = "plan" =>
        /\ Len(lastRun.executed) + Len(lastRun.failed) = Len(lastRun.actions)
        /\ IsOrderedSplit(lastRun.actions, lastRun.executed, lastRun.failed)

C13_Witness ==
    /\ lastRun.origin = "plan"
    /\ Len(lastRun.actions) >= 2
    /\ lastRun.failed # <<>>
    /\ lastRun.failed[1].reason = STORE_ERROR
    /\ lastRun.actions[1].device_id = lastRun.failed[1].device_id
    /\ lastRun.executed # <<>>
    /\ lastRun.executed[Len(lastRun.executed)] = lastRun.actions[Len(lastRun.actions)]

(***************************************************************************)
(* Properties of the planner-failure paths.                                *)
(***************************************************************************)
\* C14: in every trigger flow, a planner failure is followed by the
\* execution of the flow's deterministic fallback plan.
C14_PlannerFailureFallsBack ==
    lastRun.origin \in {"mode", "location", "command"} =>
        (lastRun.planner_failed => lastRun.fallback)

(***************************************************************************)
(* Properties of learning.                                                 *)
(***************************************************************************)
CriticalOff(a) == a.device_id \in CRITICAL_DEVICE_IDS /\ a.action = "off"

HasCriticalOff(pattern) ==
    \E i \in 1..Len(pattern.action_sequence) : CriticalOff(pattern.action_sequence[i])

AllCriticalOff(acts) == \A i \in 1..Len(acts) : CriticalOff(acts[i])

\* C15: no pattern created or updated by learn lists an `off` on a
\* statically-critical device, and a learn call whose parsed actions are all
\* such actions fails instead of going on to create or merge a pattern.
C15_LearnFiltersCriticalOff ==
    /\ \A p \in DOMAIN patterns :
          patterns[p].pattern_type = "user_defined" => ~HasCriticalOff(patterns[p])
    /\ \A p \in DOMAIN store :
          store[p].pattern_type = "user_defined" => ~HasCriticalOff(store[p])
    /\ \A l \in LearnIds :
          learns[l].pc = "merging" => ~AllCriticalOff(learns[l].parsed)

(***************************************************************************)
(* Properties of pattern matching.                                         *)
(***************************************************************************)
TriggerTypes == {"global", "calendar_mode", "none"}

TriggerValues == {"always", "do_not_disturb", "none"}

C16_State ==
    /\ \A tt \in TriggerTypes, tv \in TriggerValues :
          \A p \in DOMAIN patterns :
              p \in get_matching_patterns(patterns, tt, tv)
              <=> /\ patterns[p].approved
                  /\ patterns[p].trigger_type = tt
                  /\ patterns[p].trigger_value = tv
    /\ \A tt \in TriggerTypes, tv \in TriggerValues :
          get_matching_patterns(patterns, tt, tv) \subseteq DOMAIN patterns
    /\ \A p \in DOMAIN patterns : p <= nextPid

C16_Step ==
    /\ \A p \in DOMAIN patterns \cap DOMAIN patterns' :
          (~patterns[p].approved /\ patterns'[p].approved)
          => p \in get_matching_patterns(patterns', patterns'[p].trigger_type,
                                         patterns'[p].trigger_value)
    /\ \A p \in DOMAIN patterns' \ DOMAIN patterns : p > nextPid

\* C16: matching(trigger_type, trigger_value) returns exactly the approved
\* patterns whose trigger type and value both equal the arguments; a pattern
\* is returned from the moment it is approved, and the id of a dismissed
\* pattern never enters the pattern set again (new ids are fresh), so it is
\* never returned again.
C16_MatchingExactlyApproved == []C16_State /\ [][C16_Step]_vars

C16_Witness ==
    /\ \E p \in DOMAIN patterns :
          /\ patterns[p].pattern_type = "energy"
          /\ patterns[p].approved
          /\ p \in get_matching_patterns(patterns, "global", "always")
    /\ \E q \in DOMAIN patterns :
          /\ patterns[q].pattern_type = "user_defined"
          /\ q \in get_matching_patterns(patterns, patterns[q].trigger_type,
                                         patterns[q].trigger_value)
    /\ Cardinality(DOMAIN patterns) < nextPid

(***************************************************************************)
(* Properties of the pattern-derived constraint set.                       *)
(***************************************************************************)
PatternActionNames == {"on", "off", "lock", "unlock"}

ListsAction(pattern, d, a) ==
    \E i \in 1..Len(pattern.action_sequence) :
        /\ pattern.action_sequence[i].device_id = d
        /\ pattern.action_sequence[i].action = a

InBlocked(pattern_blocked, d, a) ==
    d \in DOMAIN pattern_blocked /\ a \in pattern_blocked[d]

\* C17: pattern_blocked contains (device, action) if and only if some
\* approved pattern with trigger type global that is classified as a
\* prohibition lists that action; actions of unapproved, non-global and
\* positive global patterns are not in it.
C17_BlockedIffProhibition ==
    LET pattern_blocked == _get_blocked_actions_from_patterns(patterns)
    IN /\ DOMAIN pattern_blocked \subseteq DeviceIds
       /\ \A d \in DOMAIN pattern_blocked : pattern_blocked[d] \subseteq PatternActionNames
       /\ LET prohibitions == {p \in DOMAIN patterns :
                                   /\ patterns[p].approved
                                   /\ patterns[p].trigger_type = "global"
                                   /\ _is_prohibition_pattern(patterns[p])}
          IN \A d \in DeviceIds, a \in PatternActionNames :
                InBlocked(pattern_blocked, d, a)
                <=> \E p \in prohibitions : ListsAction(patterns[p], d, a)

C17_Witness ==
    LET pattern_blocked == _get_blocked_actions_from_patterns(patterns)
    IN /\ InBlocked(pattern_blocked, "lock_front_door", "unlock")
       /\ \E p \in DOMAIN patterns :
             /\ ~patterns[p].approved
             /\ ListsAction(patterns[p], "plug_living_tv", "off")
             /\ ~InBlocked(pattern_blocked, "plug_living_tv", "off")
       /\ \E p \in DOMAIN patterns :
             /\ patterns[p].approved
             /\ patterns[p].trigger_type # "global"
             /\ _is_prohibition_pattern(patterns[p])
             /\ ListsAction(patterns[p], "light_living_main", "on")
             /\ ~InBlocked(pattern_blocked, "light_living_main", "on")

(***************************************************************************)
(* Properties of the prohibition classifier.                               *)
(***************************************************************************)
IsLetterOrDigit(c) == Lower(c) \in WordChars

WholeWordAt(text, i, kw) ==
    /\ i + Len(kw) - 1 <= Len(text)
    /\ \A j \in 1..Len(kw) : Lower(text[i + j - 1]) = kw[j]
    /\ i = 1 \/ ~IsLetterOrDigit(text[i - 1])
    /\ i + Len(kw) - 1 = Len(text) \/ ~IsLetterOrDigit(text[i + Len(kw)])

FieldHasKeyword(text) ==
    \E i \in 1..Len(text) : \E kw \in ProhibitionKeywords : WholeWordAt(text, i, kw)

\* C18: a global pattern is classified as a prohibition if and only if its
\* description or its source_utterance contains one of never, don't, do not,
\* prohibit, block, prevent, forbid as a whole word, case-insensitively; a
\* keyword inside another word does not count.
C18_ProhibitionIffFieldKeyword ==
    lastRun.origin = "plan" =>
        \A p \in DOMAIN lastRun.patterns :
            lastRun.patterns[p].trigger_type = "global" =>
                (_is_prohibition_pattern(lastRun.patterns[p])
                 <=> \/ FieldHasKeyword(lastRun.patterns[p].description)
                     \/ FieldHasKeyword(lastRun.patterns[p].source_utterance))

(***************************************************************************)
(* Properties of a failed learn.                                           *)
(***************************************************************************)
LearnFailures ==
    {"Could not understand the preference", "No device actions could be identified",
     "No safe device actions could be identified",
     "Could not merge the preference update", "No safe actions after merge"}

FailedLearn(l) == learns[l].pc = "returned" /\ ~learns[l].success

C19_State ==
    \A l \in LearnIds :
        FailedLearn(l) => /\ learns[l].broadcast = "none"
                          /\ learns[l].error \in LearnFailures

C19_Step ==
    \A l \in LearnIds :
        (learns[l].pc # "returned" /\ learns'[l].pc = "returned" /\ ~learns'[l].success)
        => /\ learns[l].pc \in {"parsing", "merging"}
           /\ patterns' = patterns
           /\ store' = store
           /\ detached' = detached
           /\ nextPid' = nextPid

\* C19: a learn that returns success=false (parse failure, no actions, no
\* safe actions, merge failure) has changed neither the in-memory pattern
\* set nor the store: it fails from a point before any change (parsing or
\* merging), the failing step changes nothing, no notification is
\* broadcast, and the failure is a returned value with its message.
C19_FailedLearnChangesNothing == []C19_State /\ [][C19_Step]_vars

C19_Witness ==
    /\ \E l \in LearnIds :
          FailedLearn(l) /\ learns[l].error = "No safe actions after merge"
    /\ \E l \in LearnIds :
          FailedLearn(l) /\ learns[l].error = "No safe device actions could be identified"
    /\ patterns # NoPatterns
    /\ store = patterns

(***************************************************************************)
(* Liveness of the permission handshake.                                   *)
(***************************************************************************)
Outstanding(aid) == voice_runs[aid].pc \in {"waiting", "cancelling"}

Resolved(aid) ==
    /\ voice_runs[aid].pc = "returned"
    /\ voice_runs[aid].result \in {ApprovedResult(TRUE), ApprovedResult(FALSE), TimeoutResult}
    /\ aid \notin DOMAIN pending_permissions

C21_Step ==
    (lastRun'.origin = "plan" /\ Len(lastRun'.actions) = 2
       /\ lastRun'.actions[1] = lastRun'.actions[2])
    => devices' = _execute_action_plan(devices, patterns,
                                       <<lastRun'.actions[1]>>).devices

\* C21: executing the same action (device, action name, parameters) twice
\* in succession leaves every device in the state that executing it once
\* leaves it in.
C21_TwiceIsOnce == [][C21_Step]_vars

(***************************************************************************)
(* Properties of the constraint derivation.                                *)
(***************************************************************************)
ProtectedOff(a) == a.device_id \in _PROTECTED_DEVICE_IDS /\ a.action = "off"

C22_Step ==
    lastRun' # lastRun =>
        /\ lastRun'.patterns = patterns
        /\ \A i \in 1..Len(lastRun'.actions) :
              LET a == lastRun'.actions[i]
              IN IF ProhibitedBy(patterns, a)
                 THEN /\ a \notin SeqRange(lastRun'.calls)
                      /\ \E f \in SeqRange(lastRun'.failed) :
                            f.device_id = a.device_id /\ f.action = a.action
                 ELSE ProtectedOff(a) \/ a \in SeqRange(lastRun'.calls)

\* C22: every plan execution derives the constraint set from the patterns
\* current at that moment: an action is rejected in a run if and only if a
\* prohibition pattern that is approved and present when the run starts
\* lists it (or the action is an `off` on a protected device), so a learned
\* or approved prohibition blocks in the very next run and a dismissed one
\* blocks nothing in the next run.
C22_ConstraintsRecomputed == [][C22_Step]_vars

C22_Witness ==
    /\ lastRun.origin = "plan"
    /\ lastRun.actions = <<A_tv_off, A_lock_unlock>>
    /\ lastRun.calls = <<A_tv_off>>
    /\ FailedEntry(A_lock_unlock, BLOCKED_USER) \in SeqRange(lastRun.failed)
    /\ \E p \in DOMAIN lastRun.patterns :
          lastRun.patterns[p].pattern_type = "user_defined"
    /\ ~devices["lock_front_door"].properties.locked

(***************************************************************************)
(* Properties of the plan of a mode transition.                            *)
(***************************************************************************)
\* C23: the plan executed on a transition to `new` contains every action of
\* every approved pattern matching (calendar_mode, new), whatever the
\* planner proposed and also when the fallback table is used.
C23_PatternActionsInModePlan ==
    lastRun.origin = "mode" =>
        \A p \in get_matching_patterns(lastRun.patterns, "calendar_mode",
                                       last_transition.new_mode) :
            \A a \in SeqRange(lastRun.patterns[p].action_sequence) :
                \/ a \in SeqRange(lastRun.actions)
                \/ a \in SeqRange(lastRun.calls)

(***************************************************************************)
(* Properties of Restore on thermostats and locks.                         *)
(***************************************************************************)
RestoreRan == last_transition.new_mode = "normal" /\ last_transition.restored

\* Every command Restore sent is one its device accepts (the answer to
\* these commands does not depend on the device's state).
RestoreCallsSucceeded ==
    \A i \in 1..Len(last_transition.restore_calls) :
        LET c == last_transition.restore_calls[i]
        IN DeviceExecuteAction(c.device_id, last_transition.after[c.device_id],
                               c.action, c.parameters).success

\* C24: after Restore has run with every device command succeeding, each
\* thermostat has its saved target temperature and its saved mode, and each
\* lock its saved locked/unlocked state.
C24_ThermostatAndLockRestored ==
    (RestoreRan /\ RestoreCallsSucceeded) =>
        /\ \A d \in SeqRange(DevicesOfType("thermostat")) :
              /\ last_transition.after[d].properties.target_temp_f =
                    last_transition.snapshot.states[d].properties.target_temp_f
              /\ last_transition.after[d].properties.mode =
                    last_transition.snapshot.states[d].properties.mode
        /\ \A d \in SeqRange(DevicesOfType("lock")) :
              last_transition.after[d].properties.locked =
                 last_transition.snapshot.states[d].properties.locked

(***************************************************************************)
(* Properties of the snapshot and of do-not-disturb across mode changes.   *)
(***************************************************************************)
CapturesDevices(snapshot) ==
    /\ snapshot.held
    /\ \A d \in DeviceIds :
          /\ snapshot.states[d].power = devices[d].power
          /\ snapshot.states[d].properties = devices[d].properties
          /\ snapshot.states[d].device_type = device_type[d]

C25_State ==
    (mode_handler.pc = "idle" /\ current_home_mode # "normal")
        => pre_mode_device_snapshot.held

C25_Step ==
    /\ pre_mode_device_snapshot' # pre_mode_device_snapshot =>
          \/ /\ current_home_mode = "normal"
             /\ mode_handler'.pc = "planning"
             /\ mode_handler'.new_mode # "normal"
             /\ CapturesDevices(pre_mode_device_snapshot')
          \/ /\ current_home_mode' = "normal"
             /\ pre_mode_device_snapshot' = NoSnapshot
    /\ (current_home_mode # "normal" /\ current_home_mode' # "normal")
          => pre_mode_device_snapshot' = pre_mode_device_snapshot
    /\ (current_home_mode = "normal" /\ mode_handler.pc = "idle"
          /\ mode_handler'.pc = "planning")
          => CapturesDevices(pre_mode_device_snapshot')

\* C25: the snapshot is written only when normal is left for another mode,
\* with the power, properties and type of every device at that moment; it
\* is unchanged by transitions between two non-normal modes and held while
\* the mode is not normal, and it is dropped only on the return to normal.
C25_SnapshotOnlyOnLeavingNormal == []C25_State /\ [][C25_Step]_vars

C25_Witness ==
    /\ mode_handler.pc = "idle"
    /\ current_home_mode # "normal"
    /\ last_transition.old_mode # "normal"
    /\ pre_mode_device_snapshot.held
    /\ ~CapturesDevices(pre_mode_device_snapshot)

\* C26: after every completed mode transition, do-not-disturb on the voice
\* agent is active if and only if the current mode is do_not_disturb or
\* focus.
C26_DndIffQuietMode ==
    (mode_handler.pc = "idle")
        => (dnd_active <=> current_home_mode \in {"do_not_disturb", "focus"})

C26_Witness ==
    /\ mode_handler.pc = "idle"
    /\ last_transition.new_mode = "sleep"
    /\ last_transition.old_mode = "focus"
    /\ current_home_mode = "sleep"
    /\ ~dnd_active
    /\ Len(decision_history) >= 3

(***************************************************************************)
(* Properties of the monitoring cycle.                                     *)
(***************************************************************************)
CheckBegins(check) ==
    /\ Len(monitor'.checks) = Len(monitor.checks) + 1
    /\ monitor'.checks[Len(monitor'.checks)] = check

NoLocationHandler == \A l \in UserLocations : location_handlers[l] = 0

ThreatSuspended ==
    /\ threat_handler.pc = "voice"
    /\ voice_runs[threat_handler.alert_id].pc # "returned"

C27_State ==
    \E n \in 0..3 : monitor.checks = SubSeq(<<"threat", "mode", "location">>, 1, n)

C27_Step ==
    /\ CheckBegins("mode") =>
          threat_handler.pc = "idle" /\ monitor.checks = <<"threat">>
    /\ CheckBegins("location") =>
          /\ threat_handler.pc = "idle"
          /\ mode_handler.pc = "idle"
          /\ monitor.checks = <<"threat", "mode">>
    /\ (mode_handler' # mode_handler \/ location_log' # location_log) =>
          /\ threat_handler.pc = "idle"
          /\ mode_handler'.pc = "planning" => NoLocationHandler
          /\ location_log' # location_log => mode_handler.pc = "idle"
    /\ ThreatSuspended =>
          /\ monitor' = monitor
          /\ mode_handler' = mode_handler
          /\ current_home_mode' = current_home_mode
          /\ location_log' = location_log

\* C27: in every monitoring cycle the checks begin in the order threat,
\* mode, location, each only after the handler of the one before has
\* returned; while the threat handler is suspended on a permission request
\* neither the mode check nor the location check of that cycle begins.
C27_ChecksInOrder == []C27_State /\ [][C27_Step]_vars

C27_Witness ==
    /\ monitor.checks = <<"threat", "mode", "location">>
    /\ monitor.pc = "sleep"
    /\ monitor.cycle = 1
    /\ \E i \in 1..Len(voice_log) : voice_log[i].kind = "voice_alert_timeout"
    /\ Len(decision_history) = 3
    /\ current_home_mode = "sleep"
    /\ Len(location_log) > 0

(***************************************************************************)
(* Properties of the two ways a learn ends in success: the merge into an   *)
(* existing pattern and the creation of a new one.                         *)
(***************************************************************************)
MergeWrites(l) == learns[l].pc = "merging" /\ learns'[l].pc = "persisting"

C28_Step ==
    \A l \in LearnIds : MergeWrites(l) =>
        LET pid == learns[l].existing
        IN /\ learns'[l].pid = pid
           /\ DOMAIN patterns' = DOMAIN patterns
           /\ \A q \in DOMAIN patterns \ {pid} : patterns'[q] = patterns[q]
           /\ pid \in DOMAIN patterns =>
                LET old == patterns[pid]
                    new == patterns'[pid]
                IN /\ new.pattern_type = old.pattern_type
                   /\ new.trigger_type = old.trigger_type
                   /\ new.trigger_value = old.trigger_value
                   /\ new.approved = old.approved
                   /\ new.created_at = old.created_at
                   /\ new.frequency = old.frequency
                   /\ new.confidence = old.confidence
                   /\ \E result \in DeriveMergeResults :
                         /\ new.action_sequence = SafetyFilter(result.actions)
                         /\ new.display_name = result.display_name
                         /\ new.description = result.description
                   /\ new.source_utterance =
                         old.source_utterance \o T_SEPARATOR \o learns[l].msg
                   /\ new.last_occurrence > old.last_occurrence

\* C28: a merge keeps the pattern's id, type, trigger, approved flag,
\* created_at and every other pattern, so the number of patterns is
\* unchanged; it replaces action list, name and description by the
\* planner's merged ones, appends " | " and the new utterance to
\* source_utterance and moves last_occurrence forward.
C28_MergeInPlace == [][C28_Step]_vars

C28_Witness ==
    \E l \in LearnIds, p \in DOMAIN patterns :
        /\ learns[l].pc = "returned"
        /\ learns[l].broadcast = "pattern_updated"
        /\ patterns[p].display_name = "Updated Preference"
        /\ patterns[p].source_utterance = T_DONT \o T_SEPARATOR \o T_DONT
        /\ patterns[p].last_occurrence > patterns[p].created_at
        /\ patterns[p].action_sequence = <<A_lock_unlock, A_tv_off>>

NoSafeActions == "No safe device actions could be identified"

\* A parse answer for which the lookup found no user_defined pattern with
\* the parsed trigger: the call goes on to _create_new_pattern.
CreatePath(l) ==
    /\ learns[l].pc = "parsing"
    /\ \/ learns'[l].pc = "persisting"
       \/ learns'[l].pc = "returned" /\ learns'[l].error = NoSafeActions

Creates(l) ==
    /\ learns'[l].pc = "persisting"
    /\ learns'[l].event = "pattern_learned"
    /\ LET pid == learns'[l].pid
       IN /\ pid \notin DOMAIN patterns \cup DOMAIN store \cup DOMAIN detached
          /\ pid > nextPid
          /\ DOMAIN patterns' = DOMAIN patterns \cup {pid}
          /\ \A q \in DOMAIN patterns : patterns'[q] = patterns[q]
          /\ LET new == patterns'[pid]
             IN /\ new.pattern_type = "user_defined"
                /\ new.confidence = 100
                /\ new.frequency = 1
                /\ new.approved
                /\ new.source_utterance = learns[l].msg
                /\ pid \in get_matching_patterns(patterns', new.trigger_type,
                                                 new.trigger_value)
                /\ (new.trigger_type = "global" /\ _is_prohibition_pattern(new)) =>
                      \A a \in SeqRange(new.action_sequence) :
                          LET r == _execute_action_plan(devices, patterns', <<a>>)
                          IN /\ r.calls = <<>>
                             /\ r.executed = <<>>
                             /\ r.failed = <<FailedEntry(a, BLOCKED_USER)>>

RunCalled(aid) == voice_runs[aid].pc = "idle" /\ voice_runs'[aid].pc # "idle"

LastAlert == alert_history'[Len(alert_history')]

C30_State ==
    \A i \in 1..Len(alert_history) :
        alert_history[i].dnd_suppressed => ~alert_history[i].audio

C30_Step ==
    \A aid \in AlertIds : RunCalled(aid) =>
        /\ Len(alert_history') = Len(alert_history) + 1
        /\ SubSeq(alert_history', 1, Len(alert_history)) = alert_history
        /\ LastAlert.alert_id = aid
        /\ LastAlert.dnd_suppressed <=>
              /\ dnd_active
              /\ ~LastAlert.require_permission
              /\ LastAlert.threat_level \notin {"high", "critical"}
        /\ voice_log' = Append(voice_log, VoiceEvent("voice_alert", aid))

\* C30: the audio of an alert is suppressed if and only if do-not-disturb is
\* active and the alert neither requires approval nor has threat level high
\* or critical; a suppressed alert carries no audio and is still appended
\* to the alert history and broadcast, like every other alert.
C30_SuppressedIffDndAndNotCritical == []C30_State /\ [][C30_Step]_vars

C30_Witness ==
    /\ dnd_active
    /\ Len(alert_history) = 2
    /\ alert_history[1].dnd_suppressed
    /\ alert_history[1].threat_level = "medium"
    /\ ~alert_history[1].audio
    /\ ~alert_history[2].dnd_suppressed
    /\ ~alert_history[2].require_permission
    /\ alert_history[2].threat_level = "high"
    /\ alert_history[2].audio
    /\ Len(voice_log) >= 2

(***************************************************************************)
(* Properties of the notifications of the plan executor.                   *)
(***************************************************************************)
CountIn(seq, x) == Cardinality({i \in 1..Len(seq) : seq[i] = x})

Rejected(run, a) ==
    \/ a.device_id = "" \/ a.action = ""
    \/ \E i \in 1..Len(run.failed) :
          /\ run.failed[i].device_id = a.device_id
          /\ run.failed[i].action = a.action
          /\ run.failed[i].reason \in {BLOCKED_CRITICAL, BLOCKED_USER}

\* C31: in a run of the plan executor every call broadcasts at most one
\* device_state notification, every action reported in `executed` has
\* broadcast one, and an action rejected as invalid or blocked none.
C31_OneNotificationPerExecuted ==
    lastRun.origin = "plan" =>
        \A a \in SeqRange(lastRun.actions) :
            /\ CountIn(lastRun.executed, a) <= CountIn(lastRun.notified, a)
            /\ CountIn(lastRun.notified, a) <= CountIn(lastRun.calls, a)
            /\ Rejected(lastRun, a) => CountIn(lastRun.notified, a) = 0

C31_Witness ==
    /\ lastRun.origin = "plan"
    /\ lastRun.actions = <<PlanAction("plug_living_tv", "on", EmptyParams),
                           PlanAction("", "off", EmptyParams)>>
    /\ lastRun.executed = <<PlanAction("plug_living_tv", "on", EmptyParams)>>
    /\ lastRun.notified = lastRun.executed
    /\ Len(lastRun.failed) = 1

(***************************************************************************)
(* SpecHistory: a long run of text commands, each recording one decision,  *)
(* so that the stored decision list passes the length of the accessor's    *)
(* view.                                                                   *)
(***************************************************************************)
MaxDecisions == 52

HistoryPlans ==
    {<<PatternAction("plug_living_tv", "on", EmptyParams)>>,
     <<PatternAction("plug_living_tv", "off", EmptyParams)>>}

InitHistory == InitThreat

NextHistory ==
    \E actions \in HistoryPlans :
        UserCommandWithin(MaxDecisions, actions)
          /\ UNCHANGED <<monitor, command, patternVars, voiceVars, modeVars, locationVars>>

SpecHistory == InitHistory /\ [][NextHistory]_vars

\* C32: the decision history is append-only and bounded: whatever is
\* handled, it never holds more than the 50 most recent decision records,
\* in append order.  The stored list _decision_history is append-only but
\* is never trimmed; only the accessor's view is limited.
C32_HistoryBounded == Len(decision_history) <= DECISION_HISTORY_VIEW

\* The part that does hold: every step keeps the stored records and appends
\* at the end, and the accessor's view is the most recent records in order.
AppendOnlyViewBounded ==
    /\ [](/\ Len(decision_history_view(decision_history)) <= DECISION_HISTORY_VIEW
          /\ \A i \in 1..Len(decision_history_view(decision_history)) :
                decision_history_view(decision_history)[i]
                  = decision_history[Len(decision_history)
                                       - Len(decision_history_view(decision_history)) + i])
    /\ [][/\ Len(decision_history') >= Len(decision_history)
          /\ SubSeq(decision_history', 1, Len(decision_history)) = decision_history]_vars

(***************************************************************************)
(* SpecFrame: the monitoring cycle together with everything else that runs *)
(* on the same event loop: text commands, permission responses and the     *)
(* pattern operations of the API.                                          *)
(***************************************************************************)
\* Text commands are taken while fewer than this many decisions are recorded.
MaxFrameCommands == 2

InitFrame == InitMonitor

otherThanMonitor ==
    <<command, deviceVars, lastRun, patternVars, voiceVars, threatVars, modeVars, locationVars>>

NextFrame ==
    \/ MonitorWakes /\ UNCHANGED otherThanMonitor
    \/ \E assessment \in MonitorAssessments :
          CheckThreat(assessment)
            /\ UNCHANGED <<command, patternVars, modeVars, locationVars>>
    \/ \E result \in {PlannerError} :
          ThreatReturns(result)
            /\ UNCHANGED <<command, patternVars, modeVars, locationVars>>
    \/ \E suggested \in {"normal", "sleep"} :
          CheckMode(suggested)
            /\ UNCHANGED <<command, deviceVars, lastRun, patternVars, voiceVars,
                           threat_handler, last_threat_call, locationVars>>
    \/ \E result \in {PlannerError} :
          ModeReturns(result)
            /\ UNCHANGED <<command, patternVars, threat_handler, last_threat_call, locationVars>>
    \/ \E location \in MonitorLocations :
          CheckLocation(location)
            /\ UNCHANGED <<command, deviceVars, lastRun, patternVars, voiceVars, threatVars,
                           modeVars>>
    \/ \E location \in MonitorLocations, result \in {PlannerError} :
          LocationReturns(location, result) /\ UNCHANGED <<command, patternVars, modeVars>>
    \/ \E aid \in AlertIds :
          VoiceAwaitPermission(aid) /\ UNCHANGED otherThanVoice
    \/ \E aid \in DOMAIN pending_permissions, approved \in BOOLEAN :
          handle_permission_response(aid, approved) /\ UNCHANGED otherThanVoice
    \/ \E aid \in AlertIds : WaiterResumes(aid) /\ UNCHANGED otherThanVoice
    \/ \E actions \in UserPlans :
          UserCommandWithin(MaxFrameCommands, actions)
            /\ UNCHANGED <<monitor, command, patternVars, voiceVars, modeVars, locationVars>>
    \/ \E p \in DOMAIN patterns : dismiss_pattern(p) /\ UNCHANGED otherThanPatterns

SpecFrame == InitFrame /\ [][NextFrame]_vars

ModeAlgorithmStep == mode_handler'.pc # mode_handler.pc

SameModeCheck ==
    /\ CheckBegins("mode")
    /\ monitor'.suggested = current_home_mode

\* C33: the current home mode and the device snapshot change only in steps
\* of the mode-transition algorithm (threat handling, location handling,
\* user commands, pattern operations and permission responses leave both
\* alone), and a mode check whose suggested mode is the current mode
\* changes nothing: no snapshot, no do-not-disturb toggle, no plan, no
\* decision record.
C33_OnlyModeTransitionsChangeMode ==
    [][/\ (\/ current_home_mode' # current_home_mode
           \/ pre_mode_device_snapshot' # pre_mode_device_snapshot)
          => ModeAlgorithmStep
       /\ SameModeCheck =>
             UNCHANGED <<modeVars, devices, lastRun, decision_history, voiceVars>>]_vars

C33_Witness ==
    /\ current_home_mode = "sleep"
    /\ pre_mode_device_snapshot # NoSnapshot
    /\ monitor.cycle = 2
    /\ monitor.checks = <<"threat", "mode", "location">>
    /\ monitor.suggested = "sleep"
    /\ \E i \in 1..Len(decision_history) : decision_history[i] = NoKey
    /\ \E i \in 1..Len(decision_history) : decision_history[i] = ModeKey("sleep")
    /\ Len(location_log) > 0
    /\ Len(voice_log) > 0
    /\ 1 \notin DOMAIN patterns

\* C34: whenever no mode transition is in progress, a device snapshot is
\* held exactly when the current home mode is not normal (initially normal,
\* no snapshot), whatever the sequence of suggested modes.
C34_SnapshotIffNotNormal ==
    mode_handler.pc = "idle"
        => (pre_mode_device_snapshot.held <=> current_home_mode # "normal")

C34_Witness ==
    /\ mode_handler.pc = "idle"
    /\ current_home_mode = "normal"
    /\ ~pre_mode_device_snapshot.held
    /\ last_transition.new_mode = "normal"
    /\ last_transition.old_mode = "focus"
    /\ last_transition.snapshot.held
    /\ Len(decision_history) >= 3

(***************************************************************************)
(* SpecRestore: an evening with the living-room light on: the calendar     *)
(* takes the home out of normal mode and back; the planner either fails    *)
(* (fallback table, Restore on the way back) or plans nothing.             *)
(***************************************************************************)
RestoreUserPlans == {<<PatternAction("light_living_main", "on", [brightness |-> 80])>>}

RestorePlannerResults == {PlannerError, Planned(<<>>)}

InitRestore == InitCalendar

NextRestore ==
    \/ \E suggested \in {"normal", "preparing_for_meeting", "sleep"} :
          ModeTransitionBegin(suggested)
            /\ UNCHANGED <<monitor, command, deviceVars, lastRun, patternVars, voiceVars,
                           threat_handler, last_threat_call, locationVars>>
    \/ \E result \in RestorePlannerResults :
          ModeTransitionPlanned(result)
            /\ UNCHANGED <<monitor, command, patternVars, threat_handler, last_threat_call, locationVars>>
    \/ \E actions \in RestoreUserPlans :
          /\ Len(decision_history) < MaxModeSteps
          /\ UserCommand(actions)
          /\ UNCHANGED <<monitor, command, patternVars, voiceVars, modeVars, locationVars>>

SpecRestore == InitRestore /\ [][NextRestore]_vars

\* C35: after an excursion from normal through other modes and back, with
\* Restore run and every device command succeeding, each light has the
\* power and the brightness it had in the snapshot -- also a light that was
\* on in the snapshot and was only dimmed, not switched off, meanwhile.
C35_LightsRestored ==
    (RestoreRan /\ RestoreCallsSucceeded) =>
        \A d \in SeqRange(DevicesOfType("light")) :
            /\ last_transition.after[d].power = last_transition.snapshot.states[d].power
            /\ last_transition.after[d].properties.brightness =
                  last_transition.snapshot.states[d].properties.brightness

\* Pattern ids are never reused (uuid4), so an id that was given out and is
\* not in the pattern set has been dismissed.
Dismissed(pid) == pid \in 1..nextPid /\ pid \notin DOMAIN patterns

\* C36: once dismiss_pattern(id) has returned true, the pattern is absent
\* from the in-memory set and from the durable store, and stays absent --
\* also when a merge into it was suspended on the planner at the moment of
\* the dismiss and completes afterwards.
C36_DismissedStaysAbsent ==
    \A pid \in 1..MaxPatternIds : Dismissed(pid) => pid \notin DOMAIN store

(***************************************************************************)
(* SpecOverlap: two "also do ..." instructions for the same trigger, each  *)
(* a learn call of its own, with a planner that merges as the merge prompt *)
(* asks: it keeps the actions it was shown and adds the new ones.          *)
(***************************************************************************)
T_tv == <<"t","v">>

T_lock == <<"l","o","c","k">>

P_evening ==
    Pattern("user_defined", "global", "always", T_to_do, <<A_light_on>>, TRUE, T_to_do)

OverlapParse(msg) ==
    Parsed("global", "always", msg,
           IF msg = T_tv THEN <<A_tv_on>>
           ELSE IF msg = T_lock THEN <<A_lock_lock>>
           ELSE <<A_lock_unlock>>)

OverlapDescriptions == {T_to_do, T_movie_on}

InitOverlap ==
    /\ DeviceInit
    /\ ModeInit
    /\ LocationInit
    /\ priority_tier = DefaultTiers
    /\ VoiceInit
    /\ wait_for_impl = "task_cancel"
    /\ ThreatInit
    /\ MonitorInit
    /\ CommandInit
    /\ patterns = (1 :> P_evening)
    /\ store = patterns
    /\ detached = NoPatterns
    /\ learns = [l \in LearnIds |-> IdleLearn]
    /\ nextPid = Cardinality(DOMAIN patterns)

NextOverlap ==
    \/ \E l \in LearnIds, msg \in {T_tv, T_lock, T_DONT} :
          LearnStart(l, msg) /\ UNCHANGED otherThanPatterns
    \/ \E l \in LearnIds :
          /\ learns[l].pc = "parsing"
          /\ LearnParsed(l, OverlapParse(learns[l].msg))
          /\ UNCHANGED otherThanPatterns
    \/ \E l \in LearnIds, desc \in OverlapDescriptions :
          /\ learns[l].pc = "merging"
          /\ LearnMerged(l, Merged(desc, KeepAllAndAdd(learns[l].prompt_actions,
                                                       learns[l].parsed)))
          /\ UNCHANGED otherThanPatterns
    \/ \E l \in LearnIds : LearnPersisted(l) /\ UNCHANGED otherThanPatterns

SpecOverlap == InitOverlap /\ [][NextOverlap]_vars

Occurs(text, part) ==
    \E i \in 1..(Len(text) - Len(part) + 1) : SubSeq(text, i, i + Len(part) - 1) = part

\* C37: when two learn calls merging into the same pattern overlap, neither
\* instruction is lost: the final action_sequence reflects both merges, in
\* step with the source_utterance trail, which records both utterances.
C37_NoMergeLost ==
    \A p \in DOMAIN patterns :
        /\ Occurs(patterns[p].source_utterance, T_SEPARATOR \o T_tv)
              => A_tv_on \in SeqRange(patterns[p].action_sequence)
        /\ Occurs(patterns[p].source_utterance, T_SEPARATOR \o T_lock)
              => A_lock_lock \in SeqRange(patterns[p].action_sequence)

(***************************************************************************)
(* SpecCancel: the permission handshake with the waiting flow cancelled    *)
(* from outside, as when the orchestrator is stopped during a cycle that   *)
(* waits for approval.                                                     *)
(***************************************************************************)
InitCancel == InitPerm

NextCancel ==
    \/ \E aid \in AlertIds : VoiceRun(aid, TRUE) /\ UNCHANGED otherThanVoice
    \/ \E aid \in AlertIds : VoiceAwaitPermission(aid) /\ UNCHANGED otherThanVoice
    \/ \E aid \in AlertIds, approved \in BOOLEAN :
          handle_permission_response(aid, approved) /\ UNCHANGED otherThanVoice
    \/ \E aid \in AlertIds : TimerFires(aid) /\ UNCHANGED otherThanVoice
    \/ \E aid \in AlertIds : WaiterResumes(aid) /\ UNCHANGED otherThanVoice
    \/ \E aid \in AlertIds : WaiterCancelled(aid) /\ UNCHANGED otherThanVoice
    \/ \E aid \in AlertIds : TaskCancelled(aid) /\ UNCHANGED otherThanVoice

SpecCancel == InitCancel /\ [][NextCancel]_vars

Suspended(aid) == voice_runs[aid].pc \in {"waiting", "cancelling"}

\* C38: an alert id is in the pending-permission set exactly while a caller
\* is suspended waiting on it; when the waiting flow is cancelled the entry
\* is removed, so that a later response finds no pending entry.
C38_PendingIffSuspended ==
    \A aid \in AlertIds : aid \in DOMAIN pending_permissions <=> Suspended(aid)

\* A merge of this step into pattern p: its utterance trail has grown by a
\* separator and the merged instruction.
MergedInto(p) ==
    /\ p \in DOMAIN patterns /\ p \in DOMAIN patterns'
    /\ patterns'[p].source_utterance # patterns[p].source_utterance

MergedInstruction(p) ==
    SubSeq(patterns'[p].source_utterance,
           Len(patterns[p].source_utterance) + Len(T_SEPARATOR) + 1,
           Len(patterns'[p].source_utterance))

BlocksAllItsActions(pats, p) ==
    \A a \in SeqRange(pats[p].action_sequence) :
        /\ a.device_id \in DOMAIN _get_blocked_actions_from_patterns(pats)
        /\ a.action \in _get_blocked_actions_from_patterns(pats)[a.device_id]

\* C39: the prohibition classification is monotone under merges: a global
\* pattern whose utterance trail holds a prohibition keyword is still a
\* prohibition after a merge, and a positive global pattern becomes one,
\* blocking every action of its action_sequence, as soon as a merged
\* instruction holds such a keyword.
C39_ProhibitionMonotone ==
    [][\A p \in 1..MaxPatternIds :
          MergedInto(p) =>
             /\ patterns'[p].source_utterance
                   = patterns[p].source_utterance \o T_SEPARATOR \o MergedInstruction(p)
             /\ (\/ PROHIBITION_RE_search(patterns[p].source_utterance)
                 \/ PROHIBITION_RE_search(MergedInstruction(p)))
                   => /\ _is_prohibition_pattern(patterns'[p])
                      /\ p \in get_global_constraints(patterns')
                            => BlocksAllItsActions(patterns', p)]_vars

C39_Witness ==
    /\ 1 \in DOMAIN patterns
    /\ Occurs(patterns[1].source_utterance, T_SEPARATOR \o T_DONT \o T_SEPARATOR \o T_tv)
    /\ ~PROHIBITION_RE_search(patterns[1].description)
    /\ _is_prohibition_pattern(patterns[1])
    /\ BlocksAllItsActions(patterns, 1)
    /\ A_tv_on \in SeqRange(patterns[1].action_sequence)

(***************************************************************************)
(* handle_user_command (OrchestratorAgent): the intent of the utterance is *)
(* classified by the planner, a preference is learned through              *)
(* learn_user_preference, and OrchestratorAgent.run plans and executes the *)
(* utterance as a command.  `before` keeps the devices as the call found   *)
(* them, `ran` whether run was called, `learned` what the learn call        *)
(* returned.                                                               *)
(***************************************************************************)
Intents == {"command", "preference", "both"}

\* Whether handle_user_command goes on to OrchestratorAgent.run.  The first
\* variant runs every utterance as a command.
RunsAsCommandAlways(intent, learned) == TRUE

RunsAsCommand(intent, learned) ==
    intent \in {"command", "both"} \/ (intent = "preference" /\ ~learned)

\* handle_user_command is called: the utterance is logged and the intent
\* request goes to the planner.
handle_user_command(msg) ==
    /\ command.pc \in {"idle", "returned"}
    /\ command' = [pc |-> "classifying", msg |-> msg, before |-> devices,
                   intent |-> "", learn |-> 0, learned |-> FALSE, ran |-> FALSE,
                   actions_executed |-> 0]
    /\ UNCHANGED <<deviceVars, lastRun, patternVars, voiceVars, threatVars>>

\* _classify_intent returns (an unknown answer or a failure is `command`):
\* a preference starts learn_user_preference, a command goes to run.
IntentClassified(intent) ==
    /\ command.pc = "classifying"
    /\ IF intent \in {"preference", "both"}
       THEN \E l \in LearnIds :
               /\ \A k \in LearnIds : learns[k].pc = "idle" => l <= k
               /\ LearnStart(l, command.msg)
               /\ command' = [command EXCEPT !.pc = "learning", !.intent = intent,
                                             !.learn = l]
       ELSE /\ command' = [command EXCEPT !.pc = "running", !.intent = intent]
            /\ UNCHANGED patternVars
    /\ UNCHANGED <<deviceVars, lastRun, voiceVars, threatVars>>

\* learn_user_preference has returned.  A pure preference that was learned
\* is confirmed by voice and the call returns with actions_executed = 0;
\* otherwise the call goes on to run.
PreferenceLearned ==
    /\ command.pc = "learning"
    /\ learns[command.learn].pc = "returned"
    /\ LET learned == learns[command.learn].success
       IN IF RunsAsCommand(command.intent, learned)
          THEN /\ command' = [command EXCEPT !.pc = "running", !.learned = learned]
               /\ UNCHANGED voiceVars
          ELSE /\ command' = [command EXCEPT !.pc = "returned", !.learned = learned]
               /\ voice_log' = Append(voice_log, VoiceEvent("voice_alert", "preference"))
               /\ alert_history' =
                     Append(alert_history, Alert("preference", FALSE, "", dnd_active, TRUE))
               /\ UNCHANGED <<pending_permissions, voice_runs, wait_for_impl>>
    /\ UNCHANGED <<deviceVars, lastRun, patternVars, threatVars>>

\* OrchestratorAgent.run plans and executes the utterance; after a `both`
\* whose preference was learned the pattern is announced by voice.
CommandRuns(actions) ==
    /\ command.pc = "running"
    /\ UserCommand(actions)
    /\ command' = [command EXCEPT !.pc = "returned", !.ran = TRUE,
                                  !.actions_executed = Len(lastRun'.executed)]
    /\ IF command.intent = "both" /\ command.learned
       THEN /\ voice_log' = Append(voice_log, VoiceEvent("voice_alert", "both"))
            /\ alert_history' =
                  Append(alert_history, Alert("both", FALSE, "", dnd_active, TRUE))
            /\ UNCHANGED <<pending_permissions, voice_runs, wait_for_impl>>
       ELSE UNCHANGED voiceVars
    /\ UNCHANGED patternVars

(***************************************************************************)
(* SpecCommand: utterances handled one after the other, with the planner   *)
(* free in its intent, parse, merge and plan answers.                      *)
(***************************************************************************)
CommandPlans ==
    {<<PatternAction("plug_living_tv", "on", EmptyParams)>>,
     <<PatternAction("plug_living_tv", "off", EmptyParams)>>}

CommandParseResults ==
    {PlannerError, Parsed("global", "always", T_movie_on, <<A_tv_on>>)}

InitCommand == InitCalendar

otherThanCommand == <<monitor, modeVars, locationVars>>

NextCommand ==
    \/ \E msg \in {T_tv} : handle_user_command(msg) /\ UNCHANGED otherThanCommand
    \/ \E intent \in Intents : IntentClassified(intent) /\ UNCHANGED otherThanCommand
    \/ \E l \in LearnIds, result \in CommandParseResults :
          LearnParsed(l, result) /\ UNCHANGED otherThanPatterns
    \/ \E l \in LearnIds :
          LearnMerged(l, Merged(T_movie_on, <<A_tv_on, A_light_on>>))
            /\ UNCHANGED otherThanPatterns
    \/ \E l \in LearnIds : LearnPersisted(l) /\ UNCHANGED otherThanPatterns
    \/ PreferenceLearned /\ UNCHANGED otherThanCommand
    \/ \E actions \in CommandPlans : CommandRuns(actions) /\ UNCHANGED otherThanCommand

SpecCommand == InitCommand /\ [][NextCommand]_vars

\* C40: handle_user_command on an utterance classified as a pure preference
\* that is learned successfully executes no device action; device actions
\* are executed only for the intents command and both, or when learning the
\* preference failed and the utterance is then run as a command.
C40_PreferenceExecutesNothing ==
    /\ []((command.pc = "returned" /\ command.intent = "preference" /\ command.learned)
            => /\ ~command.ran
               /\ command.actions_executed = 0
               /\ devices = command.before)
    /\ [][(devices' # devices \/ lastRun' # lastRun)
            => /\ command.pc = "running"
               /\ command'.ran
               /\ \/ command.intent \in {"command", "both"}
                  \/ command.intent = "preference" /\ ~command.learned]_vars

C40_Witness ==
    /\ command.pc = "returned"
    /\ command.intent = "preference"
    /\ command.learned
    /\ command.learn = 2
    /\ learns[1].pc = "returned" /\ ~learns[1].success
    /\ devices["plug_living_tv"].power
    /\ Len(decision_history) = 1
    /\ 1 \in DOMAIN store
    /\ alert_history # <<>>

====
